---- MODULE Spec2Model ----
(***************************************************************************)
(* Settlement core of the BTC UP/DOWN parimutuel market: ledger store      *)
(* (wallets, bets, markets, mm_positions, wallet_transactions,             *)
(* house_treasury), bet engine, resolution engine, market service and MM   *)
(* rebalancer.  Money is counted in ticks of 0.0001 TRY (DECIMAL(18,4)).   *)
(* Decimals with more digits than a machine integer holds are digit        *)
(* sequences (BigXxx operators).                                           *)
(***************************************************************************)
EXTENDS Integers, Sequences, FiniteSets, Bags, TLC

(* ---------------------------------------------------------------------- *)
(* Bounds of the model                                                     *)
(* ---------------------------------------------------------------------- *)
MaxBets == 3         \* rows of the bets table
MaxMarkets == 2      \* rows of the markets table
MaxTime == 2         \* the clock runs 0..MaxTime
MaxAdjust == 1       \* admin balance adjustments
MaxPositions == 3    \* rows of the mm_positions table
StartBalance == 30   \* TRY in each user wallet at the start
PlatformSeed == 60   \* TRY in the platform wallet at the start
NExit == 3           \* concurrent ExitBet calls of the exit scenario
NPlace == 3          \* concurrent PlaceBet calls of the placement scenario
MaxPriceCalls == 3   \* calls of the price service in the price scenario
MaxTTL == 2          \* the cache TTL is drawn from 0..MaxTTL clock ticks
MaxPrice == 2        \* an exchange answers with a price in 0..MaxPrice
NClients == 2        \* WebSocket connections
SchedHorizon == 12   \* 30 s steps the scheduler scenario runs for
MaxMsgs == 3         \* messages the API's publishers hand to the hub

(* ---------------------------------------------------------------------- *)
(* Program constants                                                       *)
(* ---------------------------------------------------------------------- *)
Unit == 10000              \* ticks per TRY: DECIMAL(18,4)
MinBet == 10               \* TRY, hard floor of PlaceBet
CommissionPct == 3         \* cfg.Wallet.CommissionRate = 0.03
DomainCommissionPct == 3   \* domain.CommissionRate = 0.03
CashoutFeePct == 5         \* domain.CashoutFeeRate = 0.05
SeedPct == 30              \* seedRatio 0.30
TargetPct == 20            \* minBalanceRatio 0.20
TriggerPct == 80           \* cfg.MM.TriggerThreshold = 0.8
MinMMBet == 2              \* TRY, cfg.MM.MinMMBet as configured here
MinReserve == 48           \* TRY, cfg.MM.MinReserve as configured here
MaxDailyLoss == 9          \* TRY, cfg.MM.MaxDailyLoss as configured here
MaxExposurePerMarket == 6  \* TRY, cfg.MM.MaxExposurePerMarket as configured here
Period == 1                \* clock steps in one 5-minute round

Users == {"u1", "u2"}
Platform == "platform"
NilUUID == "nil"           \* uuid.Nil: what a NULL user_id scans into
Wallets == Users \cup {Platform}
Outcomes == {"UP", "DOWN"}
Stakes == {MinBet * Unit, 2 * MinBet * Unit}
Prices == {1, 2}
Terminal == {"won", "lost", "cashed_out", "cancelled"}

(* ---------------------------------------------------------------------- *)
(* Decimal arithmetic                                                      *)
(* ---------------------------------------------------------------------- *)
Abs(a) == IF a < 0 THEN -a ELSE a

\* decimal digits of n, most significant first; <<>> is zero
BigFromInt(n) ==
    LET k == Cardinality({j \in 0..9 : n >= 10^j})
    IN  [i \in 1..k |-> (n \div 10^(k - i)) % 10]

BigTrim(S) ==
    LET nz == {i \in 1..Len(S) : S[i] # 0}
    IN  IF nz = {} THEN <<>>
        ELSE SubSeq(S, CHOOSE i \in nz : \A j \in nz : i <= j, Len(S))

\* the machine integer a digit sequence stands for
BigToInt(S) ==
    BagCardinality([i \in {j \in 1..Len(S) : S[j] # 0} |-> S[i] * 10^(Len(S) - i)])

Zeros(n) == [i \in 1..n |-> 0]

BigReverse(S) == [i \in 1..Len(S) |-> S[Len(S) + 1 - i]]

\* S * 10^n
BigShift(S, n) == IF S = <<>> THEN <<>> ELSE S \o Zeros(n)

\* floor(S / 10^n)
BigDrop(S, n) == IF Len(S) <= n THEN <<>> ELSE SubSeq(S, 1, Len(S) - n)

\* S * k + carry: <<digits of the low Len(S) places, least significant first,
\* carry out of the top place>>
RECURSIVE BigMulCarry(_, _, _)
BigMulCarry(S, k, carry) ==
    IF S = <<>> THEN <<<<>>, carry>>
    ELSE IF Len(S) = 1
    THEN <<<<(S[1] * k + carry) % 10>>, (S[1] * k + carry) \div 10>>
    ELSE LET h == Len(S) \div 2
             lo == BigMulCarry(SubSeq(S, h + 1, Len(S)), k, carry)
             hi == BigMulCarry(SubSeq(S, 1, h), k, lo[2])
         IN  <<lo[1] \o hi[1], hi[2]>>

\* S * k, k a machine integer below 2*10^8
BigMul(S, k) ==
    LET p == BigMulCarry(S, k, 0)
    IN  BigTrim(BigFromInt(p[2]) \o BigReverse(p[1]))

\* S + T + carry for S and T of one length, in the form of BigMulCarry
RECURSIVE BigAddCarry(_, _, _)
BigAddCarry(S, T, carry) ==
    IF S = <<>> THEN <<<<>>, carry>>
    ELSE IF Len(S) = 1
    THEN <<<<(S[1] + T[1] + carry) % 10>>, (S[1] + T[1] + carry) \div 10>>
    ELSE LET h == Len(S) \div 2
             lo == BigAddCarry(SubSeq(S, h + 1, Len(S)), SubSeq(T, h + 1, Len(T)), carry)
             hi == BigAddCarry(SubSeq(S, 1, h), SubSeq(T, 1, h), lo[2])
         IN  <<lo[1] \o hi[1], hi[2]>>

BigAdd(S, T) ==
    LET n == IF Len(S) > Len(T) THEN Len(S) ELSE Len(T)
        p == BigAddCarry(Zeros(n - Len(S)) \o S, Zeros(n - Len(T)) \o T, 0)
    IN  BigTrim(BigFromInt(p[2]) \o BigReverse(p[1]))

\* long division of S by k with r carried in: <<quotient digits, remainder>>
RECURSIVE BigDivStep(_, _, _)
BigDivStep(S, k, r) ==
    IF S = <<>> THEN <<<<>>, r>>
    ELSE IF Len(S) = 1
    THEN <<<<(r * 10 + S[1]) \div k>>, (r * 10 + S[1]) % k>>
    ELSE LET h == Len(S) \div 2
             hi == BigDivStep(SubSeq(S, 1, h), k, r)
             lo == BigDivStep(SubSeq(S, h + 1, Len(S)), k, hi[2])
         IN  <<hi[1] \o lo[1], lo[2]>>

\* decimal.DivRound on non-negative operands: floor(S / k), rounded half away
\* from zero; k a machine integer below 2*10^8
BigDivRound(S, k) ==
    LET qr == BigDivStep(S, k, 0)
    IN  IF 2 * qr[2] >= k THEN BigAdd(qr[1], <<1>>) ELSE BigTrim(qr[1])

BigLessEq(S, T) ==
    IF Len(S) # Len(T) THEN Len(S) < Len(T)
    ELSE LET d == {i \in 1..Len(S) : S[i] # T[i]}
         IN  \/ d = {}
             \/ LET i == CHOOSE x \in d : \A y \in d : x <= y IN S[i] < T[i]

BigLess(S, T) == S # T /\ BigLessEq(S, T)

\* digits after the decimal point kept by decimal.Div
DivisionPrecision == 16

\* a / b as decimal.Div gives it, in units of 10^-16 (a, b in the same unit)
DecDiv(a, b) == BigDivRound(BigShift(BigFromInt(a), DivisionPrecision), b)

\* a value in units of 10^-16 stored in a DECIMAL(18,4) column: rounded half
\* away from zero to ticks
StoreDecimal4(S) ==
    LET q == BigToInt(BigDrop(S, DivisionPrecision - 4))
        d == IF Len(S) >= DivisionPrecision - 4
             THEN S[Len(S) - (DivisionPrecision - 4) + 1] ELSE 0
    IN  IF d >= 5 THEN q + 1 ELSE q


(* ---------------------------------------------------------------------- *)
(* Domain: Market                                                          *)
(* ---------------------------------------------------------------------- *)
TotalPool(m) == m.pool_up + m.pool_down

\* total * (1 - CommissionRate), in units of 10^-6 TRY
effectivePool(m) == TotalPool(m) * (100 - DomainCommissionPct)

\* odds in units of 10^-16; <<>> is zero
UpOdds(m) ==
    IF m.pool_up = 0 THEN <<>>
    ELSE BigDivRound(BigShift(BigFromInt(effectivePool(m)), DivisionPrecision - 2),
                     m.pool_up)

DownOdds(m) ==
    IF m.pool_down = 0 THEN <<>>
    ELSE BigDivRound(BigShift(BigFromInt(effectivePool(m)), DivisionPrecision - 2),
                     m.pool_down)

OddsFor(m, o) == IF o = "UP" THEN UpOdds(m) ELSE DownOdds(m)

IsOpen(m) == m.status = "open"

IsValid(o) == o \in Outcomes

DecOne == BigShift(<<1>>, DivisionPrecision)

(* ---------------------------------------------------------------------- *)
(* Domain: Bet                                                             *)
(* ---------------------------------------------------------------------- *)
IsActive(b) == b.status = "open"

\* gross = Amount * currentOdds / OddsAtEntry, in units of 10^-16
ExitGross(b, currentOdds) ==
    BigDivRound(BigMul(currentOdds, b.amount), b.odds_at_entry)

\* the gross return paid out with no fee withheld
CalculateExitGross(b, currentOdds) ==
    IF b.odds_at_entry = 0 \/ currentOdds = <<>> THEN 0
    ELSE BigToInt(BigDrop(ExitGross(b, currentOdds), DivisionPrecision - 4))

\* net = gross - gross * CashoutFeeRate, rounded down to ticks
CalculateExitAmount(b, currentOdds) ==
    IF b.odds_at_entry = 0 \/ currentOdds = <<>> THEN 0
    ELSE BigToInt(BigDrop(BigMul(ExitGross(b, currentOdds), 100 - CashoutFeePct),
                          DivisionPrecision - 2))

CalculateExitFee(b, currentOdds) ==
    IF b.odds_at_entry = 0 \/ currentOdds = <<>> THEN 0
    ELSE BigToInt(BigDrop(BigMul(ExitGross(b, currentOdds), CashoutFeePct),
                          DivisionPrecision - 2))

(* ---------------------------------------------------------------------- *)
(* Resolution arithmetic                                                   *)
(* ---------------------------------------------------------------------- *)
\* loserPool * (1 - commission), in units of 10^-6 TRY
Distributable(loserPool) == loserPool * (100 - CommissionPct)

\* totalPool * commission as the house_treasury column stores it
CommissionAmt(totalPool) == (totalPool * CommissionPct + 50) \div 100

\* payout = RoundDown4(amount + amount / winnerPool * distributable);
\* -1 is the "winner pool is zero" error
calculatePayout(amount, winnerPool, distributable) ==
    IF winnerPool = 0 THEN -1
    ELSE amount + BigToInt(BigDrop(BigMul(DecDiv(amount, winnerPool), distributable),
                                   DivisionPrecision + 2))

(* ---------------------------------------------------------------------- *)
(* State                                                                   *)
(* ---------------------------------------------------------------------- *)
VARIABLES
    now,                  \* wall clock
    schedNext,            \* boundary the market creation loop waits for
    markets,              \* markets table, indexed by market id
    bets,                 \* bets table, indexed by bet id
    wallets,              \* wallets table: [balance, locked] per owner
    wallet_transactions,  \* audit log: bag of entries
    mm_positions,         \* mm_positions table
    house_treasury,       \* house_treasury table
    walletLock,           \* which PlaceBet transaction holds a wallet row lock
    mutations,            \* bag of committed wallet balance updates
    place,                \* PlaceBet calls
    exits,                \* ExitBet calls
    sweep,                \* the resolution loop
    cancel,               \* the running CancelMarket call
    rebal,                \* the running Rebalance call (MMService.mu)
    pendingRebalance,     \* postBetAsync goroutines not yet run
    adjusts,              \* admin adjustments made
    mmOverrideEnabled,    \* the back office's MM on/off flag
    adminResponse,        \* last response of the back office's manual resolve
    ps,                   \* the PriceService: config, cache, last call
    sched,                \* the Scheduler: its context and its three loops
    hub                   \* the WebSocket hub: clients and broadcast channel

vars == <<now, schedNext, markets, bets, wallets, wallet_transactions,
          mm_positions, house_treasury, walletLock, mutations, place, exits,
          sweep, cancel, rebal, pendingRebalance, adjusts, mmOverrideEnabled,
          adminResponse, ps,
                   sched, hub>>

\* the committed rows of the money tables
db == <<markets, bets, wallets, wallet_transactions, mm_positions,
        house_treasury, mutations>>

PlaceIds == 1..NPlace
ExitIds == 1..NExit
IdlePlace == [pc |-> "idle", user |-> "u1", market |-> 0, direction |-> "UP",
              amount |-> 0, oddsAtEntry |-> 0, res |-> "none", txOpen |-> FALSE]
IdleExit == [pc |-> "idle", user |-> "u1", bet |-> 0, exitAmount |-> 0,
             res |-> "none"]
IdleSweep == [pc |-> "idle", list |-> <<>>, closePrice |-> 0, winningBets |-> {},
              err |-> "none"]
IdleCancel == [pc |-> "idle", market |-> 0, active |-> {}, res |-> "none"]
IdleRebal == [pc |-> "idle", market |-> 0, direction |-> "UP", amount |-> 0,
              res |-> "none"]
NoResponse == [market |-> 0, close_price |-> 0, winner |-> "none"]

\* ps.exchanges in order: binance, bybit, okx
Exchanges == 1..3
DefaultWeights == <<50, 30, 20>>
DefaultCacheTTL == 1
\* weights in 0..100 that pass Config.validate (they sum to 100)
WeightConfigs == {DefaultWeights, <<100, 0, 0>>, <<50, 50, 0>>, <<0, 50, 50>>}
\* what one exchange's fetch returns
FetchResults == {[err |-> TRUE, price |-> 0]}
                \cup {[err |-> FALSE, price |-> p] : p \in 0..MaxPrice}
\* the zero time.Time
ZeroTime == -1
\* no exchange was asked
NotAsked == [ex \in Exchanges |-> [err |-> TRUE, price |-> 0]]
NoPriceResult == [op |-> "none", res |-> "none", price |-> <<>>,
                  fetched |-> FALSE, fresh |-> FALSE, results |-> NotAsked]
NewPriceService(weights, ttl) ==
    [weights |-> weights, CacheTTL |-> ttl, cachedPrice |-> <<>>,
     cacheTime |-> ZeroTime, calls |-> 0, last |-> NoPriceResult]

\* ws/hub.go: the capacity of a client's send channel and of the hub's
\* broadcast channel (256 and 512 in the source, scaled here)
sendBufferSize == 2
broadcastBufferSize == 2
ClientIds == 1..NClients
\* a connection that is not there.  send is the client's channel, written
\* what its write pump has put on the connection, joined the number of
\* messages published before it registered, dropped the messages Run did
\* not put into its channel
NoClient == [registered |-> FALSE, send |-> <<>>, written |-> <<>>, joined |-> 0,
             dropped |-> {}]
\* NewHub: no client, an empty broadcast channel; calls counts the messages
\* the API's publishers have handed to the hub
NewHub == [clients |-> [c \in ClientIds |-> NoClient], broadcast |-> <<>>,
           calls |-> 0]

\* createMarketWithRetry
maxAttempts == 3
\* retryDelay, 30 s, is one step of the scheduler's clock
retryDelay == 1
\* 30 s steps in one 5-minute round
StepsPerRound == 10
\* Scheduler.Start: the three goroutines at the top of their loops, the
\* context not cancelled, nothing logged
NewScheduler ==
    [ctxDone |-> FALSE, phase |-> 0,
     creation |-> [pc |-> "wait", attempt |-> 0, timer |-> 0],
     resolution |-> [pc |-> "select", tickDue |-> FALSE],
     price |-> [pc |-> "select", tickDue |-> FALSE],
     recovered |-> {}]

\* every table and call record at the start
InitTables ==
    /\ now = 0
    /\ schedNext = Period
    /\ markets = <<>>
    /\ bets = <<>>
    /\ wallets = [w \in Wallets |->
                    [balance |-> IF w = Platform THEN PlatformSeed * Unit
                                 ELSE StartBalance * Unit,
                     locked |-> 0]]
    /\ wallet_transactions = EmptyBag
    /\ mm_positions = <<>>
    /\ house_treasury = <<>>
    /\ walletLock = [u \in Users |-> 0]
    /\ mutations = EmptyBag
    /\ place = [i \in PlaceIds |-> IdlePlace]
    /\ exits = [i \in ExitIds |-> IdleExit]
    /\ sweep = IdleSweep
    /\ cancel = IdleCancel
    /\ rebal = IdleRebal
    /\ pendingRebalance = {}
    /\ adjusts = 0
    /\ mmOverrideEnabled = TRUE
    /\ adminResponse = NoResponse
    /\ sched = NewScheduler
    /\ hub = NewHub

\* the service as configured by default
Init == InitTables /\ ps = NewPriceService(DefaultWeights, DefaultCacheTTL)

\* the price service under any weights that sum to 100 and any cache TTL
InitPrice ==
    /\ InitTables
    /\ \E weights \in WeightConfigs, ttl \in 0..MaxTTL :
          ps = NewPriceService(weights, ttl)

(* ---------------------------------------------------------------------- *)
(* Ledger store                                                            *)
(* ---------------------------------------------------------------------- *)
\* a wallets table without the CHECK (balance >= 0) constraint
balance_unchecked(w) == TRUE

\* CHECK constraints of the wallets table
wallets_balance_non_negative(w) == w.balance >= 0
wallets_locked_non_negative(w) == w.locked >= 0

\* UPDATE wallets SET balance = balance + delta WHERE user_id = owner; an
\* owner that matches no row updates nothing
AddBalance(ws, owner, delta) ==
    IF owner \in DOMAIN ws THEN [ws EXCEPT ![owner].balance = @ + delta] ELSE ws

Mutation(ms, owner, delta) ==
    IF owner \in Wallets THEN ms (+) SetToBag({[wallet |-> owner, delta |-> delta]})
    ELSE ms

\* INSERT INTO wallet_transactions
LogTransaction(log, owner, type, amount, before, after, ref) ==
    log (+) SetToBag({[wallet |-> owner, type |-> type, amount |-> amount,
                       before |-> before, after |-> after, ref |-> ref]})

\* MarketRepository.UpdatePools on a locked open row
UpdatePools(ms, id, direction, amount) ==
    IF direction = "UP" THEN [ms EXCEPT ![id].pool_up = @ + amount]
    ELSE [ms EXCEPT ![id].pool_down = @ + amount]

(* ---------------------------------------------------------------------- *)
(* Clock and market creation                                               *)
(* ---------------------------------------------------------------------- *)
Tick ==
    /\ now < MaxTime
    /\ now' = now + 1
    /\ UNCHANGED <<schedNext, markets, bets, wallets, wallet_transactions,
                   mm_positions, house_treasury, walletLock, mutations, place,
                   exits, sweep, cancel, rebal, pendingRebalance, adjusts,
                   mmOverrideEnabled, adminResponse, ps,
                   sched, hub>>

\* MarketService.CreateMarket after a successful price fetch
CreateMarket(startTime, endTime, price) ==
    Append(markets, [status |-> "open", open_price |-> price, close_price |-> 0,
                     result |-> "none", pool_up |-> 0, pool_down |-> 0,
                     opens_at |-> startTime, closes_at |-> endTime])

\* Scheduler.marketCreationLoop: one boundary; ok = FALSE when every attempt
\* of createMarketWithRetry failed
ScheduledCreate ==
    /\ now >= schedNext
    /\ \E ok \in BOOLEAN, price \in Prices :
         IF ok /\ Len(markets) < MaxMarkets
         THEN markets' = CreateMarket(schedNext, schedNext + Period, price)
         ELSE /\ ~ok
              /\ price = 1
              /\ UNCHANGED markets
    /\ schedNext' = (now \div Period + 1) * Period
    /\ UNCHANGED <<now, bets, wallets, wallet_transactions, mm_positions,
                   house_treasury, walletLock, mutations, place, exits, sweep,
                   cancel, rebal, pendingRebalance, adjusts,
                   mmOverrideEnabled, adminResponse, ps,
                   sched, hub>>

\* MarketAdminHandler.Create
AdminCreate(opens, closes, price) ==
    /\ Len(markets) < MaxMarkets
    /\ closes > opens
    /\ markets' = CreateMarket(opens, closes, price)
    /\ UNCHANGED <<now, schedNext, bets, wallets, wallet_transactions,
                   mm_positions, house_treasury, walletLock, mutations, place,
                   exits, sweep, cancel, rebal, pendingRebalance, adjusts,
                   mmOverrideEnabled, adminResponse, ps,
                   sched, hub>>

(* ---------------------------------------------------------------------- *)
(* BetService.PlaceBet                                                     *)
(* ---------------------------------------------------------------------- *)
PlaceAmounts == Stakes \cup {MinBet * Unit - 1}
PlaceDirections == Outcomes \cup {"SIDEWAYS"}
InFlight == Cardinality({j \in PlaceIds : place[j].pc \in {"market", "commit"}})

\* the call has returned res; the stake is kept as the record of the request
PlaceDone(i, amount, res, open) ==
    place' = [place EXCEPT ![i] = [IdlePlace EXCEPT !.pc = "done", !.res = res,
                                      !.amount = amount, !.txOpen = open]]

\* a balance check that refuses a stake equal to the available balance
DeductBalanceStrict(w, amount) ==
    IF w.balance - w.locked <= amount THEN "ErrInsufficientBalance" ELSE "ok"

\* WalletRepository.DeductBalance: the check made under the row lock
DeductBalance(w, amount) ==
    IF w.balance - w.locked < amount THEN "ErrInsufficientBalance" ELSE "ok"

\* steps 1-3: validation, BeginTxx, DeductBalance (takes the wallet row lock)
PlaceBetCall(i, u, m, direction, amount) ==
    /\ place[i].pc \in {"idle", "done"}
    /\ ~place[i].txOpen
    /\ IF amount < MinBet * Unit THEN
           /\ PlaceDone(i, amount, "ErrBetTooSmall", FALSE)
           /\ UNCHANGED walletLock
       ELSE IF ~IsValid(direction) THEN
           /\ PlaceDone(i, amount, "ErrInvalidOutcome", FALSE)
           /\ UNCHANGED walletLock
       ELSE
           /\ walletLock[u] = 0
           /\ IF DeductBalance(wallets[u], amount) # "ok" THEN
                  /\ PlaceDone(i, amount, DeductBalance(wallets[u], amount), FALSE)
                  /\ UNCHANGED walletLock
              ELSE
                  /\ Len(bets) + InFlight < MaxBets
                  /\ place' = [place EXCEPT ![i] =
                        [IdlePlace EXCEPT !.pc = "market", !.user = u,
                                          !.market = m, !.direction = direction,
                                          !.amount = amount, !.txOpen = TRUE]]
                  /\ walletLock' = [walletLock EXCEPT ![u] = i]
    /\ UNCHANGED <<now, schedNext, markets, bets, wallets, wallet_transactions,
                   mm_positions, house_treasury, mutations, exits, sweep,
                   cancel, rebal, pendingRebalance, adjusts,
                   mmOverrideEnabled, adminResponse, ps,
                   sched, hub>>

\* step 4-5: the market is read outside the transaction; a market that is not
\* open returns ErrMarketNotOpen with err still nil, so the deferred rollback
\* does not run
PlaceBetMarket(i) ==
    LET p == place[i] IN
    /\ p.pc = "market"
    /\ IF p.market \notin DOMAIN markets THEN
           /\ PlaceDone(i, p.amount, "ErrMarketNotFound", FALSE)
           /\ walletLock' = [walletLock EXCEPT ![p.user] = 0]
       ELSE IF ~IsOpen(markets[p.market]) THEN
           /\ PlaceDone(i, p.amount, "ErrMarketNotOpen", TRUE)
           /\ UNCHANGED walletLock
       ELSE
           /\ place' = [place EXCEPT ![i].pc = "commit",
                  ![i].oddsAtEntry =
                      LET o == OddsFor(markets[p.market], p.direction)
                      IN  StoreDecimal4(IF o = <<>> THEN DecOne ELSE o)]
           /\ UNCHANGED walletLock
    /\ UNCHANGED <<now, schedNext, markets, bets, wallets, wallet_transactions,
                   mm_positions, house_treasury, mutations, exits, sweep,
                   cancel, rebal, pendingRebalance, adjusts,
                   mmOverrideEnabled, adminResponse, ps,
                   sched, hub>>

\* a row lock that does not look at the status
UpdatePoolsAnyStatus(m) == TRUE

\* UpdatePools: SELECT id FROM markets WHERE id = $1 AND status = 'open'
\* FOR UPDATE
UpdatePoolsGuard(m) == m.status = "open"

\* steps 6-10: UpdatePools (status re-checked under the market row lock), bet
\* row, audit entry, commit, postBetAsync; ok = FALSE is a failing statement
PlaceBetCommit(i, ok) ==
    LET p == place[i]
        w == wallets[p.user]
    IN
    /\ p.pc = "commit"
    /\ walletLock' = [walletLock EXCEPT ![p.user] = 0]
    /\   IF ~ok THEN
             /\ PlaceDone(i, p.amount, "db_error", FALSE)
             /\ UNCHANGED <<markets, bets, wallets, wallet_transactions,
                            mutations, pendingRebalance>>
         ELSE IF ~UpdatePoolsGuard(markets[p.market]) THEN
             /\ PlaceDone(i, p.amount, "ErrMarketNotOpen", FALSE)
             /\ UNCHANGED <<markets, bets, wallets, wallet_transactions,
                            mutations, pendingRebalance>>
         ELSE
             /\ wallets_balance_non_negative(
                    AddBalance(wallets, p.user, -p.amount)[p.user])
             /\ wallets' = AddBalance(wallets, p.user, -p.amount)
             /\ mutations' = Mutation(mutations, p.user, -p.amount)
             /\ markets' = UpdatePools(markets, p.market, p.direction, p.amount)
             /\ bets' = Append(bets,
                    [user |-> p.user, market |-> p.market,
                     direction |-> p.direction, amount |-> p.amount,
                     odds_at_entry |-> p.oddsAtEntry, status |-> "open",
                     payout |-> 0, cashout_amount |-> 0, placed_at |-> now])
             /\ wallet_transactions' =
                    LogTransaction(wallet_transactions, p.user, "bet_lock",
                                   p.amount, w.balance, w.balance - p.amount,
                                   Len(bets) + 1)
             /\ pendingRebalance' = pendingRebalance \cup {p.market}
             /\ PlaceDone(i, p.amount, "ok", FALSE)
    /\ UNCHANGED <<now, schedNext, mm_positions, house_treasury, exits, sweep,
                   cancel, rebal, adjusts, mmOverrideEnabled, adminResponse,
                   ps, sched, hub>>

\* the caller's context ends: database/sql rolls the abandoned transaction back
PlaceBetCtxDone(i) ==
    /\ place[i].pc = "done"
    /\ place[i].txOpen
    /\ place' = [place EXCEPT ![i].txOpen = FALSE]
    /\ walletLock' = [u \in Users |-> IF walletLock[u] = i THEN 0 ELSE walletLock[u]]
    /\ UNCHANGED <<now, schedNext, markets, bets, wallets, wallet_transactions,
                   mm_positions, house_treasury, mutations, exits, sweep,
                   cancel, rebal, pendingRebalance, adjusts,
                   mmOverrideEnabled, adminResponse, ps,
                   sched, hub>>

(* ---------------------------------------------------------------------- *)
(* BetService.ExitBet                                                      *)
(* ---------------------------------------------------------------------- *)
\* the call has returned res; the bet id is kept as the record of the request
ExitDone(i, b, res) ==
    exits' = [exits EXCEPT ![i] = [IdleExit EXCEPT !.pc = "done", !.bet = b,
                                                   !.res = res]]

\* step 1: load the bet, check owner and status
ExitBetCall(i, u, b) ==
    /\ exits[i].pc \in {"idle", "done"}
    /\ IF b \notin DOMAIN bets THEN ExitDone(i, b, "ErrBetNotActive")
       ELSE IF bets[b].user # u THEN ExitDone(i, b, "ErrForbidden")
       ELSE IF ~IsActive(bets[b]) THEN ExitDone(i, b, "ErrBetNotActive")
       ELSE exits' = [exits EXCEPT ![i] =
                [IdleExit EXCEPT !.pc = "market", !.user = u, !.bet = b]]
    /\ UNCHANGED <<now, schedNext, markets, bets, wallets, wallet_transactions,
                   mm_positions, house_treasury, walletLock, mutations, place,
                   sweep, cancel, rebal, pendingRebalance, adjusts,
                   mmOverrideEnabled, adminResponse, ps,
                   sched, hub>>

\* steps 2-3: load the market, compute the exit amount from its current odds
ExitBetMarket(i) ==
    LET e == exits[i]
        bet == bets[e.bet]
        market == markets[bet.market]
        odds == OddsFor(market, bet.direction)
        currentOdds == IF odds = <<>> THEN DecOne ELSE odds
    IN
    /\ e.pc = "market"
    /\ IF ~IsOpen(market) THEN ExitDone(i, e.bet, "ErrMarketNotOpen")
       ELSE exits' = [exits EXCEPT ![i].pc = "tx",
                         ![i].exitAmount = CalculateExitAmount(bet, currentOdds)]
    /\ UNCHANGED <<now, schedNext, markets, bets, wallets, wallet_transactions,
                   mm_positions, house_treasury, walletLock, mutations, place,
                   sweep, cancel, rebal, pendingRebalance, adjusts,
                   mmOverrideEnabled, adminResponse, ps,
                   sched, hub>>

\* an UPDATE without the status = 'open' condition
ExitBetUnguarded(b) == TRUE

\* BetRepository.ExitBet: UPDATE ... WHERE id = $3 AND status = 'open'
ExitBetGuard(b) == b.status = "open"

\* steps 4-9: one transaction; ok = FALSE is a failing statement
ExitBetTx(i, ok) ==
    LET e == exits[i]
        bet == bets[e.bet]
        w == wallets[e.user]
    IN
    /\ e.pc = "tx"
    /\ IF ~ok THEN
           /\ ExitDone(i, e.bet, "db_error")
           /\ UNCHANGED <<markets, bets, wallets, wallet_transactions, mutations>>
       ELSE IF ~ExitBetGuard(bet) THEN
           /\ ExitDone(i, e.bet, "ErrBetNotActive")
           /\ UNCHANGED <<markets, bets, wallets, wallet_transactions, mutations>>
       ELSE IF markets[bet.market].status # "open" THEN
           /\ ExitDone(i, e.bet, "ErrMarketNotOpen")
           /\ UNCHANGED <<markets, bets, wallets, wallet_transactions, mutations>>
       ELSE
           /\ walletLock[e.user] = 0
           /\ bets' = [bets EXCEPT ![e.bet].status = "cashed_out",
                                   ![e.bet].cashout_amount = e.exitAmount]
           /\ markets' = UpdatePools(markets, bet.market, bet.direction, -bet.amount)
           /\ wallets' = AddBalance(wallets, e.user, e.exitAmount)
           /\ mutations' = Mutation(mutations, e.user, e.exitAmount)
           /\ wallet_transactions' =
                  LogTransaction(wallet_transactions, e.user, "cashout",
                                 e.exitAmount, w.balance, w.balance + e.exitAmount,
                                 e.bet)
           /\ ExitDone(i, e.bet, "ok")
    /\ UNCHANGED <<now, schedNext, mm_positions, house_treasury, walletLock,
                   place, sweep, cancel, rebal, pendingRebalance, adjusts,
                   mmOverrideEnabled, adminResponse, ps,
                   sched, hub>>

(* ---------------------------------------------------------------------- *)
(* ResolutionService: the resolution sweep                                 *)
(* ---------------------------------------------------------------------- *)
\* MarketRepository.GetExpiredUnresolved: the rows ordered by closes_at
GetExpiredUnresolved(t) ==
    LET due == {i \in DOMAIN markets :
                   markets[i].status = "open" /\ markets[i].closes_at <= t}
        before(x, y) == \/ markets[x].closes_at < markets[y].closes_at
                        \/ markets[x].closes_at = markets[y].closes_at /\ x < y
        rank(x) == Cardinality({y \in due : before(y, x)}) + 1
    IN  [n \in 1..Cardinality(due) |->
            LET i == CHOOSE x \in due : rank(x) = n
            IN  [id |-> i, pool_up |-> markets[i].pool_up,
                 pool_down |-> markets[i].pool_down,
                 open_price |-> markets[i].open_price]]

\* BetRepository.GetByMarketAndOutcome: every bet of the side, whatever its status
GetByMarketAndOutcome(id, outcome) ==
    {b \in DOMAIN bets : bets[b].market = id /\ bets[b].direction = outcome}

Winner(market, closePrice) ==
    IF closePrice >= market.open_price THEN "UP" ELSE "DOWN"

Other(outcome) == IF outcome = "UP" THEN "DOWN" ELSE "UP"

PoolOf(market, outcome) ==
    IF outcome = "UP" THEN market.pool_up ELSE market.pool_down

\* ResolveExpiredMarkets: the list of markets to resolve
SweepStart ==
    /\ sweep.pc = "idle"
    /\ GetExpiredUnresolved(now) # <<>>
    /\ sweep' = [IdleSweep EXCEPT !.pc = "fetch", !.list = GetExpiredUnresolved(now)]
    /\ UNCHANGED <<now, schedNext, markets, bets, wallets, wallet_transactions,
                   mm_positions, house_treasury, walletLock, mutations, place,
                   exits, cancel, rebal, pendingRebalance, adjusts,
                   mmOverrideEnabled, adminResponse, ps,
                   sched, hub>>

\* a loop that stops at the first market that fails
SweepStopOnError(err) ==
    IF Len(sweep.list) > 1 /\ err = "none"
    THEN [IdleSweep EXCEPT !.pc = "fetch", !.list = Tail(sweep.list), !.err = err]
    ELSE [IdleSweep EXCEPT !.err = err]

\* the loop goes on to the next market; err is what resolveMarket returned
SweepNext(err) ==
    IF Len(sweep.list) > 1
    THEN [IdleSweep EXCEPT !.pc = "fetch", !.list = Tail(sweep.list), !.err = err]
    ELSE [IdleSweep EXCEPT !.err = err]

\* a Suspend that writes nothing
SuspendNothing(ms, id) == ms

\* MarketRepository.Suspend: UPDATE ... WHERE id = $1 AND status = 'open'
Suspend(ms, id) ==
    IF ms[id].status = "open" THEN [ms EXCEPT ![id].status = "suspended"] ELSE ms

\* resolveMarket steps 1-4: closing price (0 = the price feed failed), winner,
\* winning bets
SweepFetch ==
    LET market == Head(sweep.list) IN
    /\ sweep.pc = "fetch"
    /\ \E closePrice \in Prices \cup {0} :
         IF closePrice = 0 THEN
             /\ markets' = Suspend(markets, market.id)
             /\ sweep' = SweepNext("price_source_error")
         ELSE
             /\ sweep' = [sweep EXCEPT !.pc = "settle", !.closePrice = closePrice,
                    !.winningBets =
                        GetByMarketAndOutcome(market.id, Winner(market, closePrice))]
             /\ UNCHANGED markets
    /\ UNCHANGED <<now, schedNext, bets, wallets, wallet_transactions,
                   mm_positions, house_treasury, walletLock, mutations, place,
                   exits, cancel, rebal, pendingRebalance, adjusts,
                   mmOverrideEnabled, adminResponse, ps,
                   sched, hub>>

\* BetRepository.UpdateStatus: UPDATE bets SET status, payout WHERE id = $3
UpdateStatus(bs, b, status, payout) ==
    [bs EXCEPT ![b].status = status, ![b].payout = payout]

\* BetRepository.UpdateStatusBulk: only rows still open
UpdateStatusBulk(bs, id, direction, status) ==
    [b \in DOMAIN bs |->
        IF bs[b].market = id /\ bs[b].direction = direction /\ bs[b].status = "open"
        THEN [bs[b] EXCEPT !.status = status] ELSE bs[b]]

\* one pass of the winner loop of resolveMarket; the audit entry reads the
\* committed balance, the credit itself being uncommitted
PayWinner(acc, b, pool, dist) ==
    LET payout == calculatePayout(bets[b].amount, pool, dist)
    IN  [wallets |-> AddBalance(acc.wallets, bets[b].user, payout),
         log |-> LogTransaction(acc.log, bets[b].user, "payout", payout,
                     wallets[bets[b].user].balance,
                     wallets[bets[b].user].balance + payout, b),
         muts |-> Mutation(acc.muts, bets[b].user, payout),
         bets |-> UpdateStatus(acc.bets, b, "won", payout)]

\* the winner loop of resolveMarket over the bets S in placed_at order
PayWinners(S, pool, dist, start) ==
    LET loop[n \in 0..Len(bets)] ==
            IF n = 0 THEN start
            ELSE IF n \in S THEN PayWinner(loop[n - 1], n, pool, dist)
            ELSE loop[n - 1]
    IN  loop[Len(bets)]

\* GetPlatformWallet().UserID: the platform row has user_id NULL
PlatformWalletUserID == NilUUID

\* resolvePlatformBets: the new mm_positions table
resolvePlatformBets(id, won, pool, dist) ==
    [k \in DOMAIN mm_positions |->
        LET pos == mm_positions[k] IN
        IF pos.market # id \/ pos.status # "open" THEN pos
        ELSE IF pos.direction = won
        THEN [pos EXCEPT !.status = "won",
                         !.pnl = calculatePayout(pos.amount, pool, dist) - pos.amount]
        ELSE [pos EXCEPT !.status = "lost", !.pnl = -pos.amount]]

\* the AddBalance calls of resolvePlatformBets
PayPlatform(id, won, pool, dist, start) ==
    LET loop[n \in 0..Len(mm_positions)] ==
            IF n = 0 THEN start
            ELSE IF /\ mm_positions[n].market = id
                    /\ mm_positions[n].status = "open"
                    /\ mm_positions[n].direction = won
            THEN [loop[n - 1] EXCEPT
                    !.wallets = AddBalance(@, PlatformWalletUserID,
                        calculatePayout(mm_positions[n].amount, pool, dist)),
                    !.muts = Mutation(@, PlatformWalletUserID,
                        calculatePayout(mm_positions[n].amount, pool, dist))]
            ELSE loop[n - 1]
    IN  loop[Len(mm_positions)]

\* recordCommission: INSERT INTO house_treasury
recordCommission(id, amount) ==
    Append(house_treasury, [market |-> id, commission_earned |-> amount])

\* MarketRepository.Resolve: UPDATE ... WHERE id = $3 AND status IN ('open','closed')
ResolveGuard(m) == m.status \in {"open", "closed"}

Resolve(ms, id, closePrice, winner) ==
    [ms EXCEPT ![id].status = "resolved", ![id].close_price = closePrice,
               ![id].result = winner]

\* resolveMarket step 5: the settlement transaction.  Resolve runs on its own
\* connection and is committed at once; committed = FALSE is a failing Commit
SweepSettle(committed) ==
    LET market == Head(sweep.list)
        winner == Winner(market, sweep.closePrice)
        winnerPool == PoolOf(market, winner)
        loserPool == PoolOf(market, Other(winner))
        distributable == Distributable(loserPool)
        commissionAmt == CommissionAmt(TotalPool(market))
        paysPlatform == \E k \in DOMAIN mm_positions :
                           /\ mm_positions[k].market = market.id
                           /\ mm_positions[k].status = "open"
                           /\ mm_positions[k].direction = winner
        paid == PayWinners(sweep.winningBets, winnerPool, distributable,
                    [wallets |-> wallets, log |-> wallet_transactions,
                     muts |-> mutations, bets |-> bets])
        settled == PayPlatform(market.id, winner, winnerPool, distributable, paid)
    IN
    /\ sweep.pc = "settle"
    /\ sweep' = SweepNext(IF winnerPool = 0 /\ (sweep.winningBets # {} \/ paysPlatform)
                           THEN "payout_error"
                           ELSE IF ~ResolveGuard(markets[market.id])
                           THEN "ErrMarketNotFound"
                           ELSE IF ~committed THEN "commit_error" ELSE "none")
    /\ IF winnerPool = 0 /\ (sweep.winningBets # {} \/ paysPlatform) THEN
           \* calculatePayout fails: rollback
           /\ committed
           /\ UNCHANGED <<markets, bets, wallets, wallet_transactions,
                          mm_positions, house_treasury, mutations>>
       ELSE
           /\ \A b \in sweep.winningBets : walletLock[bets[b].user] = 0
           /\ IF ~ResolveGuard(markets[market.id]) THEN
                  \* Resolve touches no row: ErrMarketNotFound, rollback
                  /\ committed
                  /\ UNCHANGED <<markets, bets, wallets, wallet_transactions,
                                 mm_positions, house_treasury, mutations>>
              ELSE
                  /\ markets' = Resolve(markets, market.id, sweep.closePrice, winner)
                  /\ IF committed THEN
                         /\ wallets' = settled.wallets
                         /\ wallet_transactions' = settled.log
                         /\ mutations' = settled.muts
                         /\ bets' = UpdateStatusBulk(settled.bets, market.id,
                                                     Other(winner), "lost")
                         /\ mm_positions' = resolvePlatformBets(market.id, winner,
                                                winnerPool, distributable)
                         /\ house_treasury' = recordCommission(market.id, commissionAmt)
                     ELSE
                         UNCHANGED <<bets, wallets, wallet_transactions,
                                     mm_positions, house_treasury, mutations>>
    /\ UNCHANGED <<now, schedNext, walletLock, place, exits, cancel, rebal,
                   pendingRebalance, adjusts, mmOverrideEnabled, adminResponse,
                   ps, sched, hub>>

(* ---------------------------------------------------------------------- *)
(* MarketService.CancelMarket / ResolutionService.RefundAll, SuspendMarket  *)
(* ---------------------------------------------------------------------- *)
\* BetRepository.GetActiveByMarket
GetActiveByMarket(id) ==
    {b \in DOMAIN bets : bets[b].market = id /\ bets[b].status = "open"}

\* RefundAll reads the active bets outside any transaction
CancelCall(id) ==
    /\ cancel.pc = "idle"
    /\ id \in DOMAIN markets
    /\ cancel' = [pc |-> IF GetActiveByMarket(id) = {} THEN "cancel" ELSE "refund",
                  market |-> id, active |-> GetActiveByMarket(id), res |-> "none"]
    /\ UNCHANGED <<now, schedNext, markets, bets, wallets, wallet_transactions,
                   mm_positions, house_treasury, walletLock, mutations, place,
                   exits, sweep, rebal, pendingRebalance, adjusts,
                   mmOverrideEnabled, adminResponse, ps,
                   sched, hub>>

\* one pass of the refund loop of RefundAll
RefundBet(acc, b) ==
    [wallets |-> AddBalance(acc.wallets, bets[b].user, bets[b].amount),
     log |-> LogTransaction(acc.log, bets[b].user, "refund", bets[b].amount,
                 wallets[bets[b].user].balance,
                 wallets[bets[b].user].balance + bets[b].amount, b),
     muts |-> Mutation(acc.muts, bets[b].user, bets[b].amount),
     bets |-> UpdateStatus(acc.bets, b, "cancelled", 0)]

\* the refund loop of RefundAll over the bets S in placed_at order
RefundBets(S, start) ==
    LET loop[n \in 0..Len(bets)] ==
            IF n = 0 THEN start
            ELSE IF n \in S THEN RefundBet(loop[n - 1], n)
            ELSE loop[n - 1]
    IN  loop[Len(bets)]

\* a CancelMarket that cancels the market whatever RefundAll returned
CancelDespiteRefund(ok) == "cancel"

\* CancelMarket after RefundAll: on to MarketRepository.Cancel, or return
CancelAfterRefund(ok) == IF ok THEN "cancel" ELSE "idle"

\* RefundAll: one transaction over the bets read before; ok = FALSE is a
\* failing statement or commit: the transaction rolls back and CancelMarket
\* returns the error without calling MarketRepository.Cancel
CancelRefund(ok) ==
    LET refunded == RefundBets(cancel.active,
                        [wallets |-> wallets, log |-> wallet_transactions,
                         muts |-> mutations, bets |-> bets])
    IN
    /\ cancel.pc = "refund"
    /\ IF ok THEN
           /\ \A b \in cancel.active : walletLock[bets[b].user] = 0
           /\ wallets' = refunded.wallets
           /\ wallet_transactions' = refunded.log
           /\ mutations' = refunded.muts
           /\ bets' = refunded.bets
           /\ cancel' = [cancel EXCEPT !.pc = CancelAfterRefund(ok), !.active = {}]
       ELSE
           /\ UNCHANGED <<bets, wallets, wallet_transactions, mutations>>
           /\ cancel' = [IdleCancel EXCEPT !.pc = CancelAfterRefund(ok),
                                           !.market = cancel.market,
                                           !.res = "refund_error"]
    /\ UNCHANGED <<now, schedNext, markets, mm_positions, house_treasury,
                   walletLock, place, exits, sweep, rebal, pendingRebalance,
                   adjusts, mmOverrideEnabled, adminResponse, ps,
                   sched, hub>>

\* a cancellation that also takes resolved and cancelled markets
CancelAnyStatus(ms, id) == [ms EXCEPT ![id].status = "cancelled"]

\* MarketRepository.Cancel: UPDATE ... WHERE status NOT IN ('resolved','cancelled')
Cancel(ms, id) ==
    IF ms[id].status \notin {"resolved", "cancelled"}
    THEN [ms EXCEPT ![id].status = "cancelled"] ELSE ms

CancelFinish ==
    /\ cancel.pc = "cancel"
    /\ markets' = Cancel(markets, cancel.market)
    /\ cancel' = [IdleCancel EXCEPT
                      !.market = cancel.market,
                      !.res = IF cancel.res # "none" THEN cancel.res
                              ELSE IF Cancel(markets, cancel.market) = markets
                              THEN "ErrMarketNotFound" ELSE "ok"]
    /\ UNCHANGED <<now, schedNext, bets, wallets, wallet_transactions,
                   mm_positions, house_treasury, walletLock, mutations, place,
                   exits, sweep, rebal, pendingRebalance, adjusts,
                   mmOverrideEnabled, adminResponse, ps,
                   sched, hub>>

\* MarketService.SuspendMarket
SuspendMarket(id) ==
    /\ id \in DOMAIN markets
    /\ markets[id].status = "open"
    /\ markets' = Suspend(markets, id)
    /\ UNCHANGED <<now, schedNext, bets, wallets, wallet_transactions,
                   mm_positions, house_treasury, walletLock, mutations, place,
                   exits, sweep, cancel, rebal, pendingRebalance, adjusts,
                   mmOverrideEnabled, adminResponse, ps,
                   sched, hub>>

(* ---------------------------------------------------------------------- *)
(* UserAdminHandler.AdjustBalance                                          *)
(* ---------------------------------------------------------------------- *)
AdjustAmounts == {MinBet * Unit, -(2 * MinBet * Unit)}

\* AdminAdjustBalance is one autocommitted UPDATE; the CHECK constraint of the
\* wallets table rejects a negative result and the handler then writes no entry
AdjustBalance(u, amount) ==
    LET w == wallets[u]
        adjusted == AddBalance(wallets, u, amount)
    IN
    /\ adjusts < MaxAdjust
    /\ adjusts' = adjusts + 1
    /\ walletLock[u] = 0
    /\ IF wallets_balance_non_negative(adjusted[u]) THEN
           /\ wallets' = adjusted
           /\ mutations' = Mutation(mutations, u, amount)
           /\ wallet_transactions' =
                  LogTransaction(wallet_transactions, u,
                                 IF amount < 0 THEN "withdraw" ELSE "bonus",
                                 Abs(amount), w.balance, w.balance + amount, 0)
       ELSE UNCHANGED <<wallets, mutations, wallet_transactions>>
    /\ UNCHANGED <<now, schedNext, markets, bets, mm_positions, house_treasury,
                   walletLock, place, exits, sweep, cancel, rebal,
                   pendingRebalance, mmOverrideEnabled, adminResponse, ps,
                   sched, hub>>

(* ---------------------------------------------------------------------- *)
(* MMService.Rebalance                                                     *)
(* ---------------------------------------------------------------------- *)
\* thin / thick < TriggerThreshold
BelowTrigger(thin, thick) ==
    BigLess(DecDiv(thin, thick),
            BigShift(BigFromInt(TriggerPct), DivisionPrecision - 2))

\* a decision tree that tops up but never seeds an empty side
DecisionNoSeed(market) ==
    LET up == market.pool_up
        down == market.pool_down
    IN  IF up # 0 /\ down # 0 /\ BelowTrigger(down, up)
           /\ (up * TargetPct) \div 100 - down > MinMMBet * Unit
        THEN <<"DOWN", (up * TargetPct) \div 100 - down>>
        ELSE <<"UP", 0>>

\* the decision tree: <<direction, amount>>, amount 0 when nothing is placed
Decision(market) ==
    LET up == market.pool_up
        down == market.pool_down
    IN  IF down = 0 /\ up # 0 THEN <<"DOWN", (up * SeedPct) \div 100>>
        ELSE IF up = 0 /\ down # 0 THEN <<"UP", (down * SeedPct) \div 100>>
        ELSE IF up # 0 /\ BelowTrigger(down, up) THEN
            LET needed == (up * TargetPct) \div 100 - down
            IN  IF needed > MinMMBet * Unit THEN <<"DOWN", needed>> ELSE <<"DOWN", 0>>
        ELSE IF down # 0 /\ BelowTrigger(up, down) THEN
            LET needed == (down * TargetPct) \div 100 - up
            IN  IF needed > MinMMBet * Unit THEN <<"UP", needed>> ELSE <<"UP", 0>>
        ELSE <<"UP", 0>>

\* postBetAsync -> Rebalance: TryLock on the service mutex, market read,
\* decision; a call that finds the mutex taken returns at once
RebalanceCall(id) ==
    /\ id \in pendingRebalance
    /\ pendingRebalance' = pendingRebalance \ {id}
    /\ IF rebal.pc # "idle" \/ ~IsOpen(markets[id]) \/ Decision(markets[id])[2] = 0
       THEN UNCHANGED rebal
       ELSE rebal' = [pc |-> "place", market |-> id,
                      direction |-> Decision(markets[id])[1],
                      amount |-> Decision(markets[id])[2], res |-> "none"]
    /\ UNCHANGED <<now, schedNext, markets, bets, wallets, wallet_transactions,
                   mm_positions, house_treasury, walletLock, mutations, place,
                   exits, sweep, cancel, adjusts,
                   mmOverrideEnabled, adminResponse, ps,
                   sched, hub>>

\* SUM(amount) over the open positions of the markets ids
SumOpenPositions(ids) ==
    LET sum[n \in 0..Len(mm_positions)] ==
            IF n = 0 THEN 0
            ELSE sum[n - 1]
                 + (IF mm_positions[n].status = "open" /\ mm_positions[n].market \in ids
                    THEN mm_positions[n].amount ELSE 0)
    IN  sum[Len(mm_positions)]

\* BetRepository.GetPlatformDailyExposure: open positions created today
GetPlatformDailyExposure == SumOpenPositions(DOMAIN markets)

\* WalletRepository.GetMarketMMExposure
GetMarketMMExposure(id) == SumOpenPositions({id})

\* the guards with no per-market cap
PlatformBetGuardsNoCap(m, a) ==
    IF a < MinMMBet * Unit THEN "skip"
    ELSE IF GetPlatformDailyExposure + a > MaxDailyLoss * Unit
    THEN "ErrMMDailyLossExceeded"
    ELSE IF wallets[Platform].balance < MinReserve * Unit + a
    THEN "ErrMMReserveInsufficient"
    ELSE "go"

\* the guards with no reserve check
PlatformBetGuardsNoReserve(m, a) ==
    IF a < MinMMBet * Unit THEN "skip"
    ELSE IF GetPlatformDailyExposure + a > MaxDailyLoss * Unit
    THEN "ErrMMDailyLossExceeded"
    ELSE IF GetMarketMMExposure(m) + a > MaxExposurePerMarket * Unit THEN "skip"
    ELSE "go"

\* the guards of placePlatformBet: "go" lets the transaction start
PlatformBetGuards(m, a) ==
    IF a < MinMMBet * Unit THEN "skip"
    ELSE IF GetPlatformDailyExposure + a > MaxDailyLoss * Unit
    THEN "ErrMMDailyLossExceeded"
    ELSE IF wallets[Platform].balance < MinReserve * Unit + a
    THEN "ErrMMReserveInsufficient"
    ELSE IF GetMarketMMExposure(m) + a > MaxExposurePerMarket * Unit THEN "skip"
    ELSE "go"

\* BetRepository.CreatePlatformBet
CreatePlatformBet(m, outcome, a) ==
    Append(mm_positions, [market |-> m, direction |-> outcome, amount |-> a,
                          status |-> "open", pnl |-> 0])

\* placePlatformBet: guards, then the transaction.  The position row is
\* inserted on another connection: recorded = FALSE is that insert failing
\* (it waits for the market row this transaction holds), which rolls back
RebalancePlace(recorded) ==
    LET deducted == AddBalance(wallets, Platform, -rebal.amount) IN
    /\ rebal.pc = "place"
    /\ rebal' = [IdleRebal EXCEPT !.res =
                  IF PlatformBetGuards(rebal.market, rebal.amount) # "go"
                  THEN PlatformBetGuards(rebal.market, rebal.amount)
                  ELSE IF wallets[Platform].balance < rebal.amount
                  THEN "ErrInsufficientBalance"
                  ELSE IF \/ ~wallets_balance_non_negative(deducted[Platform])
                          \/ markets[rebal.market].status # "open"
                          \/ ~recorded
                  THEN "db_error" ELSE "ok"]
    /\ IF PlatformBetGuards(rebal.market, rebal.amount) # "go"
          \/ wallets[Platform].balance < rebal.amount
          \/ ~wallets_balance_non_negative(deducted[Platform])
          \/ markets[rebal.market].status # "open"
       THEN /\ recorded
            /\ UNCHANGED <<markets, wallets, mutations, mm_positions>>
       ELSE IF ~recorded THEN
            UNCHANGED <<markets, wallets, mutations, mm_positions>>
       ELSE /\ Len(mm_positions) < MaxPositions
            /\ wallets' = deducted
            /\ mutations' = Mutation(mutations, Platform, -rebal.amount)
            /\ markets' = UpdatePools(markets, rebal.market, rebal.direction, rebal.amount)
            /\ mm_positions' = CreatePlatformBet(rebal.market, rebal.direction, rebal.amount)
    /\ UNCHANGED <<now, schedNext, bets, wallet_transactions, house_treasury,
                   walletLock, place, exits, sweep, cancel, pendingRebalance,
                   adjusts, mmOverrideEnabled, adminResponse, ps,
                   sched, hub>>

(* ---------------------------------------------------------------------- *)
(* Back office: RiskHandler.MMOverride, MarketAdminHandler.Resolve         *)
(* ---------------------------------------------------------------------- *)
\* sets the package-level flag; the flag is read by RiskHandler.Live only
MMOverride(enabled) ==
    /\ mmOverrideEnabled' = enabled
    /\ UNCHANGED <<now, schedNext, markets, bets, wallets, wallet_transactions,
                   mm_positions, house_treasury, walletLock, mutations, place,
                   exits, sweep, cancel, rebal, pendingRebalance, adjusts,
                   adminResponse, ps,
                   sched, hub>>

\* manual resolve: validates the price, reads the market, answers with the
\* winner the price gives; no row is written and no service is called
AdminResolve(id, closePrice) ==
    /\ id \in DOMAIN markets
    /\ closePrice > 0
    /\ adminResponse' = [market |-> id, close_price |-> closePrice,
                         winner |-> Winner(markets[id], closePrice)]
    /\ UNCHANGED <<now, schedNext, markets, bets, wallets, wallet_transactions,
                   mm_positions, house_treasury, walletLock, mutations, place,
                   exits, sweep, cancel, rebal, pendingRebalance, adjusts,
                   mmOverrideEnabled, ps,
                   sched, hub>>

(* ---------------------------------------------------------------------- *)
(* PriceService                                                            *)
(* ---------------------------------------------------------------------- *)
\* a cache that is still fresh when its age equals the TTL
CacheFreshAtTTL ==
    ps.cacheTime # ZeroTime /\ now - ps.cacheTime <= ps.CacheTTL

\* !cacheTime.IsZero() && time.Since(cacheTime) < CacheTTL
CacheFresh ==
    ps.cacheTime # ZeroTime /\ now - ps.cacheTime < ps.CacheTTL

\* the exchanges whose result enters the average
Sources(r) == {ex \in Exchanges : ~r[ex].err /\ r[ex].price # 0}

sumWeighted(r) ==
    LET sum[n \in 0..3] ==
            IF n = 0 THEN 0
            ELSE sum[n - 1] + (IF n \in Sources(r)
                               THEN r[n].price * ps.weights[n] ELSE 0)
    IN  sum[3]

sumWeights(r) ==
    LET sum[n \in 0..3] ==
            IF n = 0 THEN 0
            ELSE sum[n - 1] + (IF n \in Sources(r) THEN ps.weights[n] ELSE 0)
    IN  sum[3]

\* sumWeighted.Div(sumWeights) with sumWeights = 0: decimal.Div panics
DivByZero == "panic"

\* r[ex] is what exchange ex answers if it is asked; prices in units of
\* 10^-16
GetWeightedPrice(r) ==
    /\ ps.calls < MaxPriceCalls
    /\ ps' =
         IF CacheFresh THEN
             [ps EXCEPT !.calls = @ + 1,
                        !.last = [op |-> "GetWeightedPrice", res |-> "ok",
                                  price |-> ps.cachedPrice, fetched |-> FALSE,
                                  fresh |-> TRUE, results |-> NotAsked]]
         ELSE IF Sources(r) = {} THEN
             [ps EXCEPT !.calls = @ + 1,
                        !.last = [op |-> "GetWeightedPrice",
                                  res |-> "ErrAllSourcesDown", price |-> <<>>,
                                  fetched |-> TRUE, fresh |-> FALSE,
                                  results |-> r]]
         ELSE IF sumWeights(r) = 0 THEN
             [ps EXCEPT !.calls = @ + 1,
                        !.last = [op |-> "GetWeightedPrice", res |-> DivByZero,
                                  price |-> <<>>, fetched |-> TRUE,
                                  fresh |-> FALSE, results |-> r]]
         ELSE
             [ps EXCEPT !.calls = @ + 1,
                        !.cachedPrice = DecDiv(sumWeighted(r), sumWeights(r)),
                        !.cacheTime = now,
                        !.last = [op |-> "GetWeightedPrice", res |-> "ok",
                                  price |-> DecDiv(sumWeighted(r), sumWeights(r)),
                                  fetched |-> TRUE, fresh |-> FALSE,
                                  results |-> r]]
    /\ UNCHANGED <<now, schedNext, markets, bets, wallets, wallet_transactions,
                   mm_positions, house_treasury, walletLock, mutations, place,
                   exits, sweep, cancel, rebal, pendingRebalance, adjusts,
                   mmOverrideEnabled, adminResponse, sched,
                   hub>>

GetCachedPrice ==
    /\ ps.calls < MaxPriceCalls
    /\ ps' = [ps EXCEPT !.calls = @ + 1,
                        !.last = [op |-> "GetCachedPrice", res |-> "ok",
                                  price |-> IF CacheFresh THEN ps.cachedPrice
                                            ELSE <<>>,
                                  fetched |-> FALSE, fresh |-> CacheFresh,
                                  results |-> NotAsked]]
    /\ UNCHANGED <<now, schedNext, markets, bets, wallets, wallet_transactions,
                   mm_positions, house_treasury, walletLock, mutations, place,
                   exits, sweep, cancel, rebal, pendingRebalance, adjusts,
                   mmOverrideEnabled, adminResponse, sched,
                   hub>>

(* ---------------------------------------------------------------------- *)
(* The system                                                              *)
(* ---------------------------------------------------------------------- *)
(* ws.Hub                                                                   *)
(* ---------------------------------------------------------------------- *)
\* the variables the hub and the scheduler do not touch
tables == <<bets, wallets, wallet_transactions, mm_positions, house_treasury,
            walletLock, mutations, place, exits, cancel, rebal,
            pendingRebalance, adjusts, mmOverrideEnabled, adminResponse>>

\* a message as the hub carries it; seq stands for the payload of a message
\* of the API's publishers
Message(type, market, seq) == [type |-> type, market |-> market, seq |-> seq]

\* Hub.broadcastJSON: select { case h.broadcast <- data: default: log }
broadcastJSON(h, msg) ==
    IF Len(h.broadcast) < broadcastBufferSize
    THEN [h EXCEPT !.broadcast = Append(@, msg)]
    ELSE h

\* a delivery that reaches nobody when one client's buffer is full
DeliverAllOrNothing(clients, message) ==
    IF \E c \in ClientIds :
          clients[c].registered /\ Len(clients[c].send) >= sendBufferSize
    THEN clients
    ELSE [c \in ClientIds |->
            IF clients[c].registered
            THEN [clients[c] EXCEPT !.send = Append(@, message)]
            ELSE clients[c]]

\* Hub.Run, case message := <-h.broadcast: for each client
\* select { case client.send <- message: default: }
Deliver(clients, message) ==
    [c \in ClientIds |->
        IF ~clients[c].registered THEN clients[c]
        ELSE IF Len(clients[c].send) < sendBufferSize
        THEN [clients[c] EXCEPT !.send = Append(@, message)]
        ELSE [clients[c] EXCEPT !.dropped = @ \cup {message.seq}]]

\* Hub.Run, case client := <-h.register (ServeWs made the client)
HubRegister(c) ==
    /\ ~hub.clients[c].registered
    /\ hub' = [hub EXCEPT !.clients[c] =
                 [registered |-> TRUE, send |-> <<>>, written |-> <<>>,
                  joined |-> hub.calls, dropped |-> {}]]
    /\ UNCHANGED <<now, schedNext, markets, sweep, ps, sched, tables>>

\* Hub.Run, case client := <-h.unregister (readPump saw the connection drop):
\* delete(h.clients, client); close(client.send)
HubUnregister(c) ==
    /\ hub.clients[c].registered
    /\ hub' = [hub EXCEPT !.clients[c].registered = FALSE]
    /\ UNCHANGED <<now, schedNext, markets, sweep, ps, sched, tables>>

\* Hub.Run, case message := <-h.broadcast
HubDeliver ==
    /\ hub.broadcast # <<>>
    /\ hub' = [hub EXCEPT !.broadcast = Tail(@),
                          !.clients = Deliver(@, Head(hub.broadcast))]
    /\ UNCHANGED <<now, schedNext, markets, sweep, ps, sched, tables>>

\* Client.writePump, case message, ok := <-c.send: one message written to the
\* connection
WritePump(c) ==
    /\ hub.clients[c].send # <<>>
    /\ Len(hub.clients[c].written) < MaxMsgs
    /\ hub' = [hub EXCEPT !.clients[c].send = Tail(@),
                          !.clients[c].written =
                              Append(@, Head(hub.clients[c].send))]
    /\ UNCHANGED <<now, schedNext, markets, sweep, ps, sched, tables>>

\* a publisher of the API calls Hub.BroadcastBetPlaced, BroadcastPriceUpdate,
\* BroadcastNewMarket or BroadcastMarketResolved
HubPublish(type) ==
    /\ hub.calls < MaxMsgs
    /\ hub' = [broadcastJSON(hub, Message(type, 0, hub.calls + 1))
                 EXCEPT !.calls = @ + 1]
    /\ UNCHANGED <<now, schedNext, markets, sweep, ps, sched, tables>>

(* ---------------------------------------------------------------------- *)
(* scheduler.Scheduler                                                      *)
(* ---------------------------------------------------------------------- *)
\* time.Now() in steps of 30 s
Clock == now * StepsPerRound + sched.phase

\* now.Truncate(5 * time.Minute).Add(5 * time.Minute)
NextBoundary == (now \div Period + 1) * Period

\* 30 s pass
SchedTick ==
    /\ now < MaxTime
    /\ IF sched.phase + 1 = StepsPerRound
       THEN now' = now + 1 /\ sched' = [sched EXCEPT !.phase = 0]
       ELSE now' = now /\ sched' = [sched EXCEPT !.phase = @ + 1]
    /\ UNCHANGED <<schedNext, markets, sweep, ps, hub, tables>>

\* main cancels the context
CancelCtx ==
    /\ ~sched.ctxDone
    /\ sched' = [sched EXCEPT !.ctxDone = TRUE]
    /\ UNCHANGED <<now, schedNext, markets, sweep, ps, hub, tables>>

\* a time.Ticker delivers a tick into its channel of capacity 1; Stop, which
\* is deferred by the loop, ends that.  A loop blocked in its select (pc
\* "select") is woken by the first case that becomes ready: by this tick
\* unless the context was cancelled before
TickerFire(loop) ==
    /\ loop \in {"resolution", "price"}
    /\ sched[loop].pc # "returned"
    /\ ~sched[loop].tickDue
    /\ sched' = IF sched[loop].pc = "select" /\ ~sched.ctxDone
                THEN [sched EXCEPT ![loop].pc = "ticking"]
                ELSE [sched EXCEPT ![loop].tickDue = TRUE]
    /\ UNCHANGED <<now, schedNext, markets, sweep, ps, hub, tables>>

\* a ticker loop comes back to its select after a tick.  A tick that is due
\* is taken; if the context is cancelled as well, Go chooses one of the two
\* ready cases at random (takeTick).  With no tick due the loop blocks
Reselect(s, loop, takeTick) ==
    IF s[loop].tickDue /\ (takeTick \/ ~s.ctxDone)
    THEN [s EXCEPT ![loop].pc = "ticking", ![loop].tickDue = FALSE]
    ELSE [s EXCEPT ![loop].pc = "select"]

\* GetWeightedPrice can panic: the cache is stale and some answers of the
\* exchanges carry a total weight of zero
CanPanic ==
    /\ ~CacheFresh
    /\ \E r \in [Exchanges -> FetchResults] :
          Sources(r) # {} /\ sumWeights(r) = 0

\* a panic unwinds the loop's goroutine to its deferred recoverAndLog, which
\* logs it; the goroutine then ends
recoverAndLog(s, loop, name) ==
    [s EXCEPT ![loop].pc = "returned", !.recovered = @ \cup {name}]

\* marketCreationLoop, select: case <-time.After(wait).  The timer cannot
\* have fired when the select is entered (wait > 0), and a goroutine blocked
\* in a select is woken by the first case that becomes ready
CreationWake ==
    /\ sched.creation.pc = "wait"
    /\ ~sched.ctxDone
    /\ now >= schedNext
    /\ sched' = [sched EXCEPT !.creation.pc = "attempt", !.creation.attempt = 1]
    /\ UNCHANGED <<now, schedNext, markets, sweep, ps, hub, tables>>

\* marketCreationLoop and createMarketWithRetry, select: case <-ctx.Done()
CreationCtxDone ==
    /\ sched.creation.pc \in {"wait", "backoff"}
    /\ sched.ctxDone
    /\ sched' = [sched EXCEPT !.creation.pc = "returned"]
    /\ UNCHANGED <<now, schedNext, markets, sweep, ps, hub, tables>>

\* createMarketWithRetry after a failed attempt, without a limit of attempts
AfterFailureNoLimit(creation, clock) ==
    [creation EXCEPT !.pc = "backoff", !.timer = clock + retryDelay]

\* createMarketWithRetry after a failed attempt: back off if
\* attempt < maxAttempts, else return lastErr to the loop
AfterFailure(creation, clock) ==
    IF creation.attempt < maxAttempts
    THEN [creation EXCEPT !.pc = "backoff", !.timer = clock + retryDelay]
    ELSE [creation EXCEPT !.pc = "wait", !.attempt = 0]

\* createMarketWithRetry: one attempt.  On success BroadcastNewMarket and
\* return nil; the loop then computes its next boundary
CreationAttempt(ok, price) ==
    /\ sched.creation.pc = "attempt"
    /\ IF ok /\ Len(markets) < MaxMarkets THEN
           /\ markets' = CreateMarket(schedNext, schedNext + Period, price)
           /\ hub' = broadcastJSON(hub, Message("new_market", Len(markets) + 1, 0))
           /\ sched' = [sched EXCEPT !.creation.pc = "wait",
                                     !.creation.attempt = 0]
           /\ schedNext' = NextBoundary
       ELSE
           /\ ~ok
           /\ price = 1
           /\ sched' = [sched EXCEPT !.creation = AfterFailure(@, Clock)]
           /\ schedNext' = IF sched'.creation.pc = "wait" THEN NextBoundary
                           ELSE schedNext
           /\ UNCHANGED <<markets, hub>>
    /\ UNCHANGED <<now, sweep, ps, tables>>

\* the back-off's timer is ready
BackoffReadyIgnoringCtx == Clock >= sched.creation.timer

\* createMarketWithRetry, select: case <-time.After(retryDelay).  The select
\* is entered with the timer not ready, so a context cancelled by then wins
BackoffReady == ~sched.ctxDone /\ Clock >= sched.creation.timer

CreationRetry ==
    /\ sched.creation.pc = "backoff"
    /\ BackoffReady
    /\ sched' = [sched EXCEPT !.creation.pc = "attempt",
                              !.creation.attempt = @ + 1]
    /\ UNCHANGED <<now, schedNext, markets, sweep, ps, hub, tables>>

\* CreateMarket calls GetWeightedPrice, which panics
CreationPanic ==
    /\ sched.creation.pc = "attempt"
    /\ CanPanic
    /\ sched' = recoverAndLog(sched, "creation", "marketCreationLoop")
    /\ UNCHANGED <<now, schedNext, markets, sweep, ps, hub, tables>>

\* resolutionLoop, case <-ticker.C: ResolveExpiredMarkets up to its list of
\* markets; with nothing to resolve the tick is over
ResolutionTick(takeTick) ==
    /\ sched.resolution.pc = "ticking"
    /\ sweep.pc = "idle"
    /\ IF GetExpiredUnresolved(now) = <<>> THEN
           /\ sched' = Reselect(sched, "resolution", takeTick)
           /\ UNCHANGED sweep
       ELSE
           /\ ~takeTick
           /\ sched' = [sched EXCEPT !.resolution.pc = "tick"]
           /\ sweep' = [IdleSweep EXCEPT !.pc = "fetch",
                                         !.list = GetExpiredUnresolved(now)]
    /\ UNCHANGED <<now, schedNext, markets, ps, hub, tables>>

\* ResolveExpiredMarkets returns to the loop
ResolutionTickEnd(takeTick) ==
    /\ sched.resolution.pc = "tick"
    /\ sweep.pc = "idle"
    /\ sched' = Reselect(sched, "resolution", takeTick)
    /\ UNCHANGED <<now, schedNext, markets, sweep, ps, hub, tables>>

\* resolutionLoop, select: case <-ctx.Done()
ResolutionCtxDone ==
    /\ sched.resolution.pc = "select"
    /\ sched.ctxDone
    /\ sched' = [sched EXCEPT !.resolution.pc = "returned"]
    /\ UNCHANGED <<now, schedNext, markets, sweep, ps, hub, tables>>

\* resolveMarket calls GetWeightedPrice, which panics
ResolutionPanic ==
    /\ sched.resolution.pc = "tick"
    /\ sweep.pc = "fetch"
    /\ CanPanic
    /\ sched' = recoverAndLog(sched, "resolution", "resolutionLoop")
    /\ sweep' = [IdleSweep EXCEPT !.err = DivByZero]
    /\ UNCHANGED <<now, schedNext, markets, ps, hub, tables>>

\* MarketRepository.GetActive: the open market that opens last, 0 if none
GetActive ==
    LET open == {i \in DOMAIN markets : markets[i].status = "open"}
    IN  IF open = {} THEN 0
        ELSE CHOOSE i \in open :
                \A j \in open : \/ markets[j].opens_at < markets[i].opens_at
                                \/ markets[j].opens_at = markets[i].opens_at
                                   /\ j <= i

\* priceBroadcastLoop, case <-ticker.C: broadcastPrice: the price (priced =
\* FALSE: the fetch failed), the active market, BroadcastPriceUpdate
PriceTick(priced, takeTick) ==
    /\ sched.price.pc = "ticking"
    /\ sched' = Reselect(sched, "price", takeTick)
    /\ hub' = IF priced /\ GetActive # 0
              THEN broadcastJSON(hub, Message("price_update", GetActive, 0))
              ELSE hub
    /\ UNCHANGED <<now, schedNext, markets, sweep, ps, tables>>

\* priceBroadcastLoop, select: case <-ctx.Done()
PriceCtxDone ==
    /\ sched.price.pc = "select"
    /\ sched.ctxDone
    /\ sched' = [sched EXCEPT !.price.pc = "returned"]
    /\ UNCHANGED <<now, schedNext, markets, sweep, ps, hub, tables>>

\* broadcastPrice calls GetWeightedPrice, which panics
PricePanic ==
    /\ sched.price.pc = "ticking"
    /\ CanPanic
    /\ sched' = recoverAndLog(sched, "price", "priceBroadcastLoop")
    /\ UNCHANGED <<now, schedNext, markets, sweep, ps, hub, tables>>

(* ---------------------------------------------------------------------- *)

\* Each specification below runs a part of the system: the operations a
\* scenario needs, with the inputs it needs.

\* no call is in progress
Quiet ==
    /\ \A i \in PlaceIds : place[i].pc \in {"idle", "done"} /\ ~place[i].txOpen
    /\ \A i \in ExitIds : exits[i].pc \in {"idle", "done"}
    /\ sweep.pc = "idle"
    /\ cancel.pc = "idle"
    /\ rebal.pc = "idle"

\* one isolated market, opened by the operator at the start: any sequence of
\* placements, early exits, MM rebalances, refunds and resolutions, one call
\* after the other, every statement succeeding
Next ==
    \/ now < Period /\ Tick
    \/ now = 0 /\ markets = <<>> /\ AdminCreate(now, now + Period, 2)
    \/ \E u \in Users, d \in Outcomes, a \in Stakes :
          Quiet /\ Len(bets) < 2 /\ PlaceBetCall(1, u, 1, d, a)
    \/ PlaceBetMarket(1)
    \/ PlaceBetCommit(1, TRUE)
    \/ PlaceBetCtxDone(1)
    \/ \E b \in DOMAIN bets : Quiet /\ ExitBetCall(1, bets[b].user, b)
    \/ ExitBetMarket(1)
    \/ ExitBetTx(1, TRUE)
    \/ Quiet /\ SweepStart
    \/ SweepFetch
    \/ SweepSettle(TRUE)
    \/ Quiet /\ CancelCall(1)
    \/ CancelRefund(TRUE)
    \/ CancelFinish
    \/ Quiet /\ RebalanceCall(1)
    \/ \E recorded \in BOOLEAN : RebalancePlace(recorded)

Spec == Init /\ [][Next]_vars

\* every operation that writes a wallet, one call after the other: one bettor
\* staking the minimum, and the back office adjusting the bettor's balance
NextLedger ==
    \/ now < Period /\ Tick
    \/ now = 0 /\ markets = <<>> /\ AdminCreate(now, now + Period, 2)
    \/ \E d \in Outcomes :
          Quiet /\ Len(bets) < 2 /\ PlaceBetCall(1, "u1", 1, d, MinBet * Unit)
    \/ PlaceBetMarket(1)
    \/ PlaceBetCommit(1, TRUE)
    \/ PlaceBetCtxDone(1)
    \/ \E b \in DOMAIN bets : Quiet /\ ExitBetCall(1, bets[b].user, b)
    \/ ExitBetMarket(1)
    \/ ExitBetTx(1, TRUE)
    \/ Quiet /\ SweepStart
    \/ SweepFetch
    \/ SweepSettle(TRUE)
    \/ Quiet /\ CancelCall(1)
    \/ CancelRefund(TRUE)
    \/ CancelFinish
    \/ Quiet /\ RebalanceCall(1)
    \/ \E recorded \in BOOLEAN : RebalancePlace(recorded)
    \/ \E a \in AdjustAmounts : Quiet /\ AdjustBalance("u1", a)

SpecLedger == Init /\ [][NextLedger]_vars

\* early exit, the resolution sweep and refund-all interleaved over the bets
\* of one bettor
NextRace ==
    \/ now < Period /\ Tick
    \/ now = 0 /\ markets = <<>> /\ AdminCreate(now, now + Period, 2)
    \/ \E d \in Outcomes :
          Quiet /\ Len(bets) < 2 /\ PlaceBetCall(1, "u1", 1, d, MinBet * Unit)
    \/ PlaceBetMarket(1)
    \/ PlaceBetCommit(1, TRUE)
    \/ \E b \in DOMAIN bets : ExitBetCall(1, bets[b].user, b)
    \/ ExitBetMarket(1)
    \/ ExitBetTx(1, TRUE)
    \/ SweepStart
    \/ SweepFetch
    \/ SweepSettle(TRUE)
    \/ CancelCall(1)
    \/ CancelRefund(TRUE)
    \/ CancelFinish

SpecRace == Init /\ [][NextRace]_vars

\* the life of markets without bets: the creation loop, the back office, the
\* resolution sweep
NextMarkets ==
    \/ Tick
    \/ ScheduledCreate
    \/ \E price \in Prices : AdminCreate(now, now + Period, price)
    \/ SweepStart
    \/ SweepFetch
    \/ SweepSettle(TRUE)
    \/ \E id \in 1..MaxMarkets : SuspendMarket(id)
    \/ \E id \in 1..MaxMarkets : CancelCall(id)
    \/ CancelFinish

SpecMarkets == Init /\ [][NextMarkets]_vars

\* NExit calls of ExitBet for bet 1 by its owner, each made while the bet is
\* open, racing with each other and with a second placement
NextExit ==
    \/ now = 0 /\ markets = <<>> /\ AdminCreate(now, now + Period, 2)
    \/ \E u \in Users, d \in Outcomes, a \in Stakes :
          markets # <<>> /\ Len(bets) < 2 /\ PlaceBetCall(1, u, 1, d, a)
    \/ PlaceBetMarket(1)
    \/ PlaceBetCommit(1, TRUE)
    \/ \E i \in ExitIds :
          /\ exits[i].pc = "idle"
          /\ 1 \in DOMAIN bets
          /\ IsActive(bets[1])
          /\ ExitBetCall(i, bets[1].user, 1)
    \/ \E i \in ExitIds : ExitBetMarket(i)
    \/ \E i \in ExitIds : ExitBetTx(i, TRUE)

SpecExit == Init /\ [][NextExit]_vars

\* NPlace calls of PlaceBet by one bettor on an open market, racing
NextPlace ==
    \/ now = 0 /\ markets = <<>> /\ AdminCreate(now, now + Period, 2)
    \/ \E i \in PlaceIds, d \in Outcomes, a \in Stakes :
          /\ place[i].pc = "idle"
          /\ markets # <<>>
          /\ PlaceBetCall(i, "u1", 1, d, a)
    \/ \E i \in PlaceIds : PlaceBetMarket(i)
    \/ \E i \in PlaceIds : PlaceBetCommit(i, TRUE)

SpecPlace == Init /\ [][NextPlace]_vars

\* PlaceBet with every kind of request, on a market the operator may suspend,
\* with statements that may fail
NextErr ==
    \/ now = 0 /\ markets = <<>> /\ AdminCreate(now, now + Period, 2)
    \/ SuspendMarket(1)
    \/ \E m \in 1..MaxMarkets, d \in PlaceDirections, a \in PlaceAmounts :
          PlaceBetCall(1, "u1", m, d, a)
    \/ PlaceBetMarket(1)
    \/ \E ok \in BOOLEAN : PlaceBetCommit(1, ok)
    \/ PlaceBetCtxDone(1)

SpecErr == Init /\ [][NextErr]_vars

\* placements racing with the resolution sweep: bets are placed one after the
\* other while the sweep reads the expired market, its winning bets, and
\* settles
NextSettle ==
    \/ now < Period /\ Tick
    \/ now = 0 /\ markets = <<>> /\ AdminCreate(now, now + Period, 2)
    \/ \E u \in Users, d \in Outcomes :
          Len(bets) < MaxBets /\ PlaceBetCall(1, u, 1, d, MinBet * Unit)
    \/ PlaceBetMarket(1)
    \/ PlaceBetCommit(1, TRUE)
    \/ PlaceBetCtxDone(1)
    \/ SweepStart
    \/ SweepFetch
    \/ SweepSettle(TRUE)

SpecSettle == Init /\ [][NextSettle]_vars

\* the market maker over one day: two markets one after the other, each
\* bettor staking once per market on UP, the rebalance goroutine run after a
\* bet or after the next one, the resolution sweep; one call after the other
NextMM ==
    \/ Quiet /\ pendingRebalance = {} /\ Tick
    \/ /\ Quiet
       /\ \A id \in DOMAIN markets : markets[id].status # "open"
       /\ AdminCreate(now, now + Period, 2)
    \/ \E u \in Users, a \in Stakes :
          /\ Quiet
          /\ markets # <<>>
          /\ IsOpen(markets[Len(markets)])
          /\ Len(bets) < MaxBets
          /\ \A b \in DOMAIN bets : bets[b].market = Len(markets) => bets[b].user # u
          /\ PlaceBetCall(1, u, Len(markets), "UP", a)
    \/ PlaceBetMarket(1)
    \/ PlaceBetCommit(1, TRUE)
    \/ \E id \in pendingRebalance : Quiet /\ RebalanceCall(id)
    \/ \E recorded \in BOOLEAN : RebalancePlace(recorded)
    \/ Quiet /\ SweepStart
    \/ SweepFetch
    \/ SweepSettle(TRUE)

SpecMM == Init /\ [][NextMM]_vars

\* the back office switching the MM flag between calls, on one market with
\* bets and rebalances
NextSwitch ==
    \/ now = 0 /\ markets = <<>> /\ AdminCreate(now, now + Period, 2)
    \/ \E enabled \in BOOLEAN : Quiet /\ MMOverride(enabled)
    \/ \E u \in Users, d \in Outcomes, a \in Stakes :
          Quiet /\ markets # <<>> /\ Len(bets) < 2 /\ PlaceBetCall(1, u, 1, d, a)
    \/ PlaceBetMarket(1)
    \/ PlaceBetCommit(1, TRUE)
    \/ Quiet /\ RebalanceCall(1)
    \/ \E recorded \in BOOLEAN : RebalancePlace(recorded)

SpecSwitch == Init /\ [][NextSwitch]_vars

\* a market with bets whose resolution may fail for want of a price, and an
\* operator posting manual resolves with the prices then available
NextOperator ==
    \/ now < Period /\ Tick
    \/ now = 0 /\ markets = <<>> /\ AdminCreate(now, now + Period, 2)
    \/ \E u \in Users, d \in Outcomes :
          Quiet /\ markets # <<>> /\ Len(bets) < 2
                /\ PlaceBetCall(1, u, 1, d, MinBet * Unit)
    \/ PlaceBetMarket(1)
    \/ PlaceBetCommit(1, TRUE)
    \/ Quiet /\ SweepStart
    \/ SweepFetch
    \/ SweepSettle(TRUE)
    \/ \E price \in Prices : AdminResolve(1, price)

\* the resolution loop runs every few seconds and asks for the closing price;
\* the operator keeps posting manual resolves, with every price
LiveOperator ==
    /\ Init
    /\ [][NextOperator]_vars
    /\ WF_vars(Quiet /\ SweepStart)
    /\ WF_vars(SweepFetch)
    /\ \A price \in Prices : WF_vars(AdminResolve(1, price))

\* CancelMarket on a market while bets are being placed; the refund
\* transaction may fail
NextCancel ==
    \/ now = 0 /\ markets = <<>> /\ AdminCreate(now, now + Period, 2)
    \/ \E u \in Users, d \in Outcomes :
          markets # <<>> /\ Len(bets) < MaxBets
                         /\ PlaceBetCall(1, u, 1, d, MinBet * Unit)
    \/ PlaceBetMarket(1)
    \/ PlaceBetCommit(1, TRUE)
    \/ CancelCall(1)
    \/ \E ok \in BOOLEAN : CancelRefund(ok)
    \/ CancelFinish

SpecCancel == Init /\ [][NextCancel]_vars

\* one market, bets placed one after the other, then the sweep; the commit
\* of the settlement transaction succeeds or fails
NextCommit ==
    \/ now < Period /\ Tick
    \/ now = 0 /\ markets = <<>> /\ AdminCreate(now, now + Period, 2)
    \/ \E u \in Users, d \in Outcomes :
          Quiet /\ Len(bets) < MaxBets /\ PlaceBetCall(1, u, 1, d, MinBet * Unit)
    \/ PlaceBetMarket(1)
    \/ PlaceBetCommit(1, TRUE)
    \/ Quiet /\ SweepStart
    \/ SweepFetch
    \/ \E committed \in BOOLEAN : SweepSettle(committed)

SpecCommit == Init /\ [][NextCommit]_vars

\* two bettors with one bet each on opposite sides of one market, their
\* ExitBet calls racing
NextExits ==
    \/ now = 0 /\ markets = <<>> /\ AdminCreate(now, now + Period, 2)
    \/ \E u \in Users, d \in Outcomes :
          /\ Quiet
          /\ \A b \in DOMAIN bets : bets[b].user # u /\ bets[b].direction # d
          /\ PlaceBetCall(1, u, 1, d, MinBet * Unit)
    \/ PlaceBetMarket(1)
    \/ PlaceBetCommit(1, TRUE)
    \/ \E b \in DOMAIN bets :
          /\ place[1].pc \in {"idle", "done"}
          /\ exits[b].pc = "idle"
          /\ ExitBetCall(b, bets[b].user, b)
    \/ \E i \in ExitIds : ExitBetMarket(i)
    \/ \E i \in ExitIds : ExitBetTx(i, TRUE)

SpecExits == Init /\ [][NextExits]_vars

\* one market with bets and early exits, and a resolution loop that keeps
\* running with a price oracle that answers
PricedFetch == SweepFetch /\ sweep'.pc = "settle"

NextLive ==
    \/ now < Period /\ Tick
    \/ now = 0 /\ markets = <<>> /\ AdminCreate(now, now + Period, 2)
    \/ \E u \in Users, d \in Outcomes :
          Quiet /\ markets # <<>> /\ Len(bets) < 2
                /\ PlaceBetCall(1, u, 1, d, MinBet * Unit)
    \/ PlaceBetMarket(1)
    \/ PlaceBetCommit(1, TRUE)
    \/ \E b \in DOMAIN bets :
          Quiet /\ IsActive(bets[b]) /\ ExitBetCall(1, bets[b].user, b)
    \/ ExitBetMarket(1)
    \/ ExitBetTx(1, TRUE)
    \/ Quiet /\ SweepStart
    \/ PricedFetch
    \/ SweepSettle(TRUE)

\* every call that has started runs to its end; the resolution loop ticks
\* again and again
SpecLive ==
    /\ Init
    /\ [][NextLive]_vars
    /\ []<>(place[1].pc # "market")
    /\ WF_vars(PlaceBetCommit(1, TRUE))
    /\ []<>(exits[1].pc # "market")
    /\ WF_vars(ExitBetTx(1, TRUE))
    /\ WF_vars(Quiet /\ SweepStart)
    /\ WF_vars(PricedFetch)
    /\ []<>(sweep.pc # "settle")

\* PlaceBet calls of the two bettors on one open market, racing
NextOdds ==
    \/ now = 0 /\ markets = <<>> /\ AdminCreate(now, now + Period, 2)
    \/ \E i \in PlaceIds, u \in Users, d \in Outcomes, a \in Stakes :
          /\ markets # <<>>
          /\ PlaceBetCall(i, u, 1, d, a)
    \/ \E i \in PlaceIds : PlaceBetMarket(i)
    \/ \E i \in PlaceIds : PlaceBetCommit(i, TRUE)

SpecOdds == Init /\ [][NextOdds]_vars

\* two markets open at the same time, a bet on each, and the post-bet
\* rebalances of both running as their goroutines are scheduled
NextRebal ==
    \/ \E price \in Prices : now = 0 /\ AdminCreate(now, now + Period, price)
    \/ \E u \in Users, m \in DOMAIN markets :
          /\ \A b \in DOMAIN bets : bets[b].market # m /\ bets[b].user # u
          /\ PlaceBetCall(1, u, m, "UP", MinBet * Unit)
    \/ PlaceBetMarket(1)
    \/ PlaceBetCommit(1, TRUE)
    \/ \E id \in pendingRebalance : RebalanceCall(id)
    \/ \E recorded \in BOOLEAN : RebalancePlace(recorded)

SpecRebal == Init /\ [][NextRebal]_vars

\* the hub alone: connections come and go, publishers publish, Run delivers
\* and the write pumps drain
NextHub ==
    \/ \E c \in ClientIds : HubRegister(c)
    \/ \E c \in ClientIds : HubUnregister(c)
    \/ \E type \in {"bet_placed"} : HubPublish(type)
    \/ HubDeliver
    \/ \E c \in ClientIds : WritePump(c)

SpecHub == Init /\ [][NextHub]_vars

\* the scheduler from its start to SchedHorizon, under the default weights
\* or weights with a zero: a market opened by the operator for the first
\* round, the three loops, the context's cancellation, the hub's Run loop
InitSched ==
    /\ InitTables
    /\ \E weights \in {DefaultWeights, <<0, 50, 50>>} :
          ps = NewPriceService(weights, DefaultCacheTTL)

NextSched ==
    \/ Clock < SchedHorizon /\ SchedTick
    \/ Clock = 0 /\ markets = <<>> /\ AdminCreate(now, now + Period, 2)
    \/ CancelCtx
    \/ \E loop \in {"resolution", "price"} : TickerFire(loop)
    \/ CreationWake
    \/ CreationCtxDone
    \/ \E ok \in BOOLEAN, price \in Prices : CreationAttempt(ok, price)
    \/ CreationRetry
    \/ CreationPanic
    \/ \E takeTick \in BOOLEAN : ResolutionTick(takeTick)
    \/ SweepFetch
    \/ SweepSettle(TRUE)
    \/ \E takeTick \in BOOLEAN : ResolutionTickEnd(takeTick)
    \/ ResolutionCtxDone
    \/ ResolutionPanic
    \/ \E priced, takeTick \in BOOLEAN : PriceTick(priced, takeTick)
    \/ PriceCtxDone
    \/ PricePanic
    \/ HubDeliver

SpecSched == InitSched /\ [][NextSched]_vars

\* the market creation loop over MaxTime rounds, every price fetch answering
\* or failing without a panic, and the hub with one connection
NextCreate ==
    \/ SchedTick
    \/ CreationWake
    \/ \E ok \in BOOLEAN, price \in Prices : CreationAttempt(ok, price)
    \/ CreationRetry
    \/ HubRegister(1)
    \/ HubDeliver
    \/ WritePump(1)

SpecCreate == Init /\ [][NextCreate]_vars

\* the resolution loop and the price broadcast loop on a market opened by the
\* operator for the first round, and the hub with one connection
NextResolved ==
    \/ now < Period /\ Tick
    \/ now = 0 /\ markets = <<>> /\ AdminCreate(now, now + Period, 2)
    \/ \E loop \in {"resolution", "price"} : TickerFire(loop)
    \/ \E takeTick \in BOOLEAN : ResolutionTick(takeTick)
    \/ SweepFetch
    \/ SweepSettle(TRUE)
    \/ \E takeTick \in BOOLEAN : ResolutionTickEnd(takeTick)
    \/ \E priced, takeTick \in BOOLEAN : PriceTick(priced, takeTick)
    \/ HubRegister(1)
    \/ HubDeliver
    \/ WritePump(1)

SpecResolved == Init /\ [][NextResolved]_vars

\* the price service alone: calls of GetWeightedPrice and GetCachedPrice as
\* the clock advances, each exchange failing or answering
NextPrice ==
    \/ Tick
    \/ \E r \in [Exchanges -> FetchResults] : GetWeightedPrice(r)
    \/ GetCachedPrice

SpecPrice == InitPrice /\ [][NextPrice]_vars

(* ---------------------------------------------------------------------- *)
(* Properties                                                              *)
(* ---------------------------------------------------------------------- *)
\* the sum of f over the members of S where f is positive
SumOver(S, f(_)) == BagCardinality([x \in {y \in S : f(y) > 0} |-> f(x)])

\* the entries of the audit log that satisfy P, counted with their copies
CountEntries(P(_)) ==
    LET es == {e \in DOMAIN wallet_transactions : P(e)}
    IN  BagCardinality([e \in es |-> wallet_transactions[e]])

\* market 1 is over and no call is in progress
Settled ==
    /\ Quiet
    /\ markets # <<>>
    /\ markets[1].status \in {"resolved", "cancelled"}

BalanceOf(w) == wallets[w].balance
CommissionOf(k) == IF house_treasury[k].market = 1
                   THEN house_treasury[k].commission_earned ELSE 0

\* user wallet deltas + platform wallet delta + house_treasury of market 1
NetFlow ==
    (SumOver(Users, BalanceOf) - Cardinality(Users) * StartBalance * Unit)
    + (wallets[Platform].balance - PlatformSeed * Unit)
    + SumOver(DOMAIN house_treasury, CommissionOf)

IsPayoutEntry(e) == e.type \in {"payout", "cashout", "refund"}

\* C1: once the market is over, the user wallet deltas, the platform wallet
\* delta and the house_treasury amount of the market sum to zero, up to one
\* tick (0.0001) for every amount paid out.
C1_Conservation ==
    Settled => Abs(NetFlow) <= CountEntries(IsPayoutEntry) + Len(mm_positions)

PayoutOfWon(b) == IF bets[b].market = 1 /\ bets[b].status = "won"
                  THEN bets[b].payout ELSE 0

\* C2: in a resolved market the payouts credited to the winning bets sum to
\* at most winner_pool + loser_pool * (1 - commission rate).
C2_PayoutsBounded ==
    (Quiet /\ markets # <<>> /\ markets[1].status = "resolved") =>
        100 * SumOver(DOMAIN bets, PayoutOfWon)
            <= 100 * PoolOf(markets[1], markets[1].result)
               + Distributable(PoolOf(markets[1], Other(markets[1].result)))

\* the audit entries of wallet w that record the balance change d
AuditCount(w, d) ==
    LET records(e) == /\ e.wallet = w
                      /\ e.after - e.before = d
                      /\ e.amount = Abs(d)
    IN  CountEntries(records)

\* C5: every committed change of a wallet balance has exactly one audit entry
\* of that wallet with amount = |change| and balance_after - balance_before =
\* change.
C5_EveryMutationAudited ==
    \A m \in DOMAIN mutations : mutations[m] = AuditCount(m.wallet, m.delta)

\* C9: no bet is committed at or after the closes_at of its market.
C9_NoBetAfterClose ==
    \A b \in DOMAIN bets : bets[b].placed_at < markets[bets[b].market].closes_at

\* C3: a bet that is won, lost, cashed_out or cancelled keeps that status in
\* every step of early exit, the resolution sweep and refund-all.
C3_TerminalStatusIsFinal ==
    [][\A b \in DOMAIN bets :
          bets[b].status \in Terminal => bets'[b].status = bets[b].status]_vars

\* C6: at every instant at most one market has status open.
C6_AtMostOneOpenMarket ==
    Cardinality({id \in DOMAIN markets : markets[id].status = "open"}) <= 1

\* C10: a PlaceBet call that returns an error has changed no wallet, pool,
\* bet row or audit entry, and has left no transaction open.
C10_FailedPlaceBetRolledBack ==
    [][\A i \in PlaceIds :
          (place'[i] # place[i] /\ place'[i].pc = "done" /\ place'[i].res # "ok")
              => (db' = db /\ ~place'[i].txOpen)]_vars

\* C4: every wallet, the platform wallet included, has balance >= 0 and
\* balance >= locked after every committed transaction.
C4_WalletsSolvent ==
    \A w \in Wallets :
        wallets[w].balance >= 0 /\ wallets[w].balance >= wallets[w].locked

\* a bet, a withdrawal and an MM injection have emptied the bettor's wallet
\* and drawn on the platform wallet
C4_Witness ==
    /\ wallets["u1"].balance = 0
    /\ adjusts = 1
    /\ bets # <<>>
    /\ wallets[Platform].balance < PlatformSeed * Unit

ExitOk == {i \in ExitIds : exits[i].pc = "done" /\ exits[i].res = "ok"}

\* what the bets table says user u has staked, and has been paid on exit
Staked(u) ==
    LET stake(b) == IF bets[b].user = u THEN bets[b].amount ELSE 0
    IN  SumOver(DOMAIN bets, stake)
CashedOut(u) ==
    LET paid(b) == IF bets[b].user = u /\ bets[b].status = "cashed_out"
                   THEN bets[b].cashout_amount ELSE 0
    IN  SumOver(DOMAIN bets, paid)
OpenStakes(d) ==
    LET stake(b) == IF bets[b].direction = d /\ bets[b].status = "open"
                    THEN bets[b].amount ELSE 0
    IN  SumOver(DOMAIN bets, stake)
IsCashoutOfBet1(e) == e.type = "cashout" /\ e.ref = 1

\* C7: of the concurrent ExitBet calls for one open bet exactly one succeeds:
\* the bet is cashed_out and its owner credited once; every other call
\* returns ErrBetNotActive, and wallets and pools show no other change.
C7_ExactlyOneExit ==
    /\ Cardinality(ExitOk) <= 1
    /\ ExitOk # {} <=> (1 \in DOMAIN bets /\ bets[1].status = "cashed_out")
    /\ CountEntries(IsCashoutOfBet1) = Cardinality(ExitOk)
    /\ \A i \in ExitIds \ ExitOk :
          exits[i].pc = "done" => exits[i].res = "ErrBetNotActive"
    /\ (\A i \in ExitIds : exits[i].pc = "done") => Cardinality(ExitOk) = 1
    /\ \A u \in Users :
          wallets[u].balance = StartBalance * Unit - Staked(u) + CashedOut(u)
    /\ markets # <<>> =>
          \A d \in Outcomes : PoolOf(markets[1], d) = OpenStakes(d)

\* every call has returned: one succeeded, the others found the bet not active
C7_Witness ==
    /\ \A i \in ExitIds : exits[i].pc = "done"
    /\ Cardinality(ExitOk) = 1
    /\ Cardinality({i \in ExitIds : exits[i].res = "ErrBetNotActive"}) = NExit - 1
    /\ NExit >= 2

PlaceReturned == {i \in PlaceIds : place[i].pc = "done"}
RequestedStake(i) == place[i].amount
CommittedStake(b) == bets[b].amount
SucceededStake(i) == IF place[i].res = "ok" THEN place[i].amount ELSE 0

\* C8: the stakes of the successful placements of one user never sum to more
\* than the starting balance, and when the stakes requested sum to exactly the
\* starting balance every placement succeeds and the available balance ends
\* at 0.
C8_NoDoubleSpend ==
    /\ SumOver(DOMAIN bets, CommittedStake) <= StartBalance * Unit
    /\ SumOver(PlaceReturned, SucceededStake) = SumOver(DOMAIN bets, CommittedStake)
    /\ wallets["u1"].balance - wallets["u1"].locked
          = StartBalance * Unit - SumOver(DOMAIN bets, CommittedStake)
    /\ (/\ \A i \in PlaceIds : place[i].pc \in {"idle", "done"}
        /\ SumOver(PlaceReturned, RequestedStake) = StartBalance * Unit)
       => /\ \A i \in PlaceReturned : place[i].res = "ok"
          /\ wallets["u1"].balance - wallets["u1"].locked = 0

\* NPlace placements that together stake the whole balance have all succeeded
C8_Witness ==
    /\ \A i \in PlaceIds : place[i].pc = "done" /\ place[i].res = "ok"
    /\ SumOver(PlaceReturned, RequestedStake) = StartBalance * Unit
    /\ wallets["u1"].balance = 0

\* the payout the pools of the resolved market row give bet b
PayoutAtResolution(b, m) ==
    calculatePayout(bets[b].amount, PoolOf(m, m.result),
                    Distributable(PoolOf(m, Other(m.result))))

\* C11: when a market becomes resolved, every open bet on the winning side
\* is won with payout round_down_4(stake + stake / winner_pool * loser_pool
\* * (1 - commission rate)), the pools being those of the market row at that
\* moment.
C11_PayoutFromFrozenPools ==
    [][\A b \in DOMAIN bets :
          LET id == bets[b].market IN
          (/\ markets[id].status # "resolved"
           /\ markets'[id].status = "resolved"
           /\ bets[b].status = "open"
           /\ bets[b].direction = markets'[id].result)
          => /\ bets'[b].status = "won"
             /\ bets'[b].payout = PayoutAtResolution(b, markets'[id])]_vars

\* x ticks = round_down_4(stake * odds / odds_at_entry * (1 - cashout fee
\* rate)) in exact arithmetic: x <= stake * odds * 95 / (entry * 10^14) < x+1
IsExactExitAmount(x, bet, odds) ==
    LET num == BigMul(BigMul(odds, bet.amount), 100 - CashoutFeePct)
        den(y) == BigShift(BigMul(BigFromInt(y), bet.odds_at_entry),
                           DivisionPrecision - 2)
    IN  BigLessEq(den(x), num) /\ BigLess(num, den(x + 1))

InjectionReturns == rebal.pc = "place" /\ rebal'.pc = "idle"

\* the step commits an injection
InjectionCommitted == InjectionReturns /\ rebal'.res = "ok"

\* the step changes no wallet, pool or position
NothingInjected ==
    /\ wallets' = wallets
    /\ mm_positions' = mm_positions
    /\ \A id \in DOMAIN markets :
          /\ markets'[id].pool_up = markets[id].pool_up
          /\ markets'[id].pool_down = markets[id].pool_down

\* the injection would take the platform balance below MinReserve
BelowReserve == wallets[Platform].balance - rebal.amount < MinReserve * Unit

InjectedToday ==
    LET sum[n \in 0..Len(mm_positions)] ==
            IF n = 0 THEN 0 ELSE sum[n - 1] + mm_positions[n].amount
    IN  sum[Len(mm_positions)]

\* C14: the sum of the MM injections made in one day never exceeds
\* MaxDailyLoss, also after the markets holding the earlier positions have
\* resolved.
C14_DailyInjectionsBounded == InjectedToday <= MaxDailyLoss * Unit

\* the injection would take the market's open MM positions over the cap
OverMarketCap ==
    GetMarketMMExposure(rebal.market) + rebal.amount > MaxExposurePerMarket * Unit

\* every market's open MM positions are within the cap after the step
WithinMarketCap ==
    \A id \in DOMAIN markets :
        GetMarketMMExposure(id)' <= MaxExposurePerMarket * Unit

\* C15 as stated: per market the open MM positions never sum to more than
\* MaxExposurePerMarket, and an injection that would exceed it is skipped
\* without error and without changes.
C15_MarketCapAsStated ==
    [][/\ WithinMarketCap
       /\ (InjectionReturns /\ OverMarketCap)
          => (rebal'.res = "skip" /\ NothingInjected)]_vars

\* C15: per market the open MM positions never sum to more than
\* MaxExposurePerMarket; an injection that would exceed it changes nothing,
\* and is skipped without error unless the daily-loss or the reserve guard,
\* which are checked first, fails it.
C15_MarketCapKept ==
    [][/\ WithinMarketCap
       /\ (InjectionReturns /\ OverMarketCap)
          => /\ NothingInjected
             /\ rebal'.res =
                   IF GetPlatformDailyExposure + rebal.amount > MaxDailyLoss * Unit
                   THEN "ErrMMDailyLossExceeded"
                   ELSE IF BelowReserve THEN "ErrMMReserveInsufficient"
                   ELSE "skip"]_vars

\* an injection was skipped for the per-market cap
C15_Witness == rebal.pc = "idle" /\ rebal.res = "skip"

\* C16: while the MM flag is off, a Rebalance makes no injection: it changes
\* no pool, no wallet and no position.
C16_SwitchedOffMeansNoInjection ==
    [][(~mmOverrideEnabled /\ InjectionReturns) => NothingInjected]_vars

\* a step in which resolveMarket gives up for want of a closing price
PriceFailed ==
    /\ sweep.pc = "fetch"
    /\ sweep'.err = "price_source_error"
    /\ Len(sweep'.list) < Len(sweep.list)

C18_SuspendedMarketGetsResolved ==
    (markets # <<>> /\ markets[1].status = "suspended")
        ~> (markets # <<>> /\ markets[1].status = "resolved")

\* C19: once CancelMarket has cancelled a market, no bet of that market is
\* open, whatever was placed or exited while it ran.
C19_NoOpenBetInCancelledMarket ==
    \A b \in DOMAIN bets :
        markets[bets[b].market].status = "cancelled" => bets[b].status # "open"

\* a step in which RefundAll fails inside CancelMarket
RefundFailed == cancel.pc = "refund" /\ cancel'.res = "refund_error"

\* C20: when RefundAll fails, CancelMarket returns the error without
\* cancelling: the market row is as before and no refund of the attempt is
\* committed.
C20_FailedRefundCancelsNothing ==
    [][RefundFailed =>
          /\ cancel'.pc = "idle"
          /\ markets' = markets
          /\ bets' = bets
          /\ wallets' = wallets
          /\ wallet_transactions' = wallet_transactions]_vars

\* CancelMarket returned the refund error and the market is still open with
\* its bet
C20_Witness ==
    /\ cancel.pc = "idle"
    /\ cancel.res = "refund_error"
    /\ markets[cancel.market].status = "open"
    /\ \E b \in DOMAIN bets : bets[b].status = "open"

\* a step in which resolveMarket returns an error for the head of the list
ResolveFailed ==
    /\ sweep.pc \in {"fetch", "settle"}
    /\ Len(sweep'.list) < Len(sweep.list)
    /\ sweep'.err # "none"

\* C21: a failure on one market of a sweep leaves the markets already
\* resolved as they are, and the sweep goes on to every later market of its
\* list.
C21_FailureDoesNotAbortSweep ==
    [][ResolveFailed =>
          /\ sweep'.list = Tail(sweep.list)
          /\ Tail(sweep.list) # <<>> => sweep'.pc = "fetch"
          /\ \A id \in DOMAIN markets :
                markets[id].status = "resolved" => markets'[id] = markets[id]]_vars

\* after a failure on the first market of the list the sweep has resolved
\* the second
C21_Witness ==
    /\ Len(markets) = 2
    /\ markets[1].status = "suspended"
    /\ markets[2].status = "resolved"
    /\ sweep.pc = "idle"
    /\ sweep.err = "none"


\* the call that just returned was a GetWeightedPrice that asked the exchanges
FetchReturned ==
    /\ ps.last.op = "GetWeightedPrice"
    /\ ps.last.fetched

\* the sum W of the weights of the exchanges that answered the last call
SucceedingWeight ==
    LET r == ps.last.results
    IN  sumWeights(r)

\* C22: a GetWeightedPrice that is not served from the cache fails with the
\* all-sources-down error exactly when the weights of the exchanges that
\* answered sum to zero, and otherwise returns the mean of their prices
\* weighted by their weights alone.
C22_WeightedMeanOrAllDown ==
    FetchReturned =>
        /\ ps.last.res \in {"ok", "ErrAllSourcesDown"}
        /\ (ps.last.res = "ErrAllSourcesDown") <=> (SucceedingWeight = 0)
        /\ ps.last.res = "ok" =>
              ps.last.price = DecDiv(sumWeighted(ps.last.results),
                                     SucceedingWeight)

\* the step is a call of the price service returning
PriceCallReturns == ps'.calls = ps.calls + 1

\* the cache holds a price whose age is below the TTL
YoungCache == ps.cacheTime # ZeroTime /\ now - ps.cacheTime < ps.CacheTTL

\* C23: a cached price is served (by GetWeightedPrice without a fetch, by
\* GetCachedPrice as fresh) only while its age is below CacheTTL; at an age
\* of CacheTTL or more, and always when CacheTTL is 0, GetCachedPrice says
\* not fresh and GetWeightedPrice asks the exchanges again; a fetch that
\* fails leaves the cached price and its time as they were.
C23_CacheServedOnlyBelowTTL ==
    [][PriceCallReturns =>
          /\ ps'.last.op = "GetWeightedPrice" =>
                /\ ps'.last.fetched <=> ~YoungCache
                /\ ~ps'.last.fetched => ps'.last.price = ps.cachedPrice
                /\ ps'.last.res # "ok" =>
                      /\ ps'.cachedPrice = ps.cachedPrice
                      /\ ps'.cacheTime = ps.cacheTime
          /\ ps'.last.op = "GetCachedPrice" =>
                /\ ps'.last.fresh <=> YoungCache
                /\ ps'.last.fresh => ps'.last.price = ps.cachedPrice
                /\ ps'.cachedPrice = ps.cachedPrice
                /\ ps'.cacheTime = ps.cacheTime
          /\ ps.CacheTTL = 0 => ~ps'.last.fresh]_vars

\* a price was fetched, its age has reached a positive CacheTTL exactly, and
\* GetCachedPrice called at that age said not fresh
C23_Witness ==
    /\ ps.CacheTTL > 0
    /\ ps.cacheTime # ZeroTime
    /\ now - ps.cacheTime = ps.CacheTTL
    /\ ps.last.op = "GetCachedPrice"
    /\ ~ps.last.fresh

\* the status changes the specification lists
ListedTransitions ==
    {<<"open", "resolved">>, <<"closed", "resolved">>, <<"open", "suspended">>,
     <<"open", "cancelled">>, <<"closed", "cancelled">>}

\* every change of a market's status in this step is in T
StatusChangesWithin(T) ==
    \A id \in DOMAIN markets :
        markets'[id].status # markets[id].status =>
            <<markets[id].status, markets'[id].status>> \in T

\* C24: a market's status changes only open -> resolved, closed -> resolved,
\* open -> suspended, open -> cancelled or closed -> cancelled.
C24_OnlyListedTransitions == [][StatusChangesWithin(ListedTransitions)]_vars

\* C24 as the code has it: the listed changes and suspended -> cancelled;
\* resolved and cancelled are terminal and no market returns to open.
C24_ListedOrSuspendedToCancelled ==
    [][StatusChangesWithin(ListedTransitions
                           \cup {<<"suspended", "cancelled">>})]_vars

\* the sweep failed to fetch a price for the only market, which a
\* CancelMarket has then cancelled
C24_Witness ==
    /\ Len(markets) = 1
    /\ markets[1].status = "cancelled"
    /\ cancel.market = 1
    /\ cancel.res = "ok"
    /\ sweep.err = "price_source_error"

\* the settlement of market id is in the tables: its treasury row exists and
\* none of its bets is open
SettlementCommitted(id) ==
    /\ \E k \in DOMAIN house_treasury : house_treasury[k].market = id
    /\ \A b \in DOMAIN bets : bets[b].market = id => bets[b].status # "open"

\* no settlement write of market id is in the tables
NothingSettled(id) ==
    /\ \A k \in DOMAIN house_treasury : house_treasury[k].market # id
    /\ \A b \in DOMAIN bets : bets[b].market = id => bets[b].status = "open"

\* C25: resolution is all-or-nothing: a market is resolved exactly when its
\* settlement (credits, bet updates, MM settlements, treasury row) is
\* committed; otherwise none of it is.
C25_ResolutionAllOrNothing ==
    \A id \in DOMAIN markets :
        IF markets[id].status = "resolved"
        THEN SettlementCommitted(id)
        ELSE NothingSettled(id)

\* the credits to the owner that refer to bet b: cashout, payout, refund
CreditsOfBet(b) ==
    LET isCredit(e) == IsPayoutEntry(e) /\ e.ref = b
    IN  CountEntries(isCredit)

\* C26: over its lifetime a bet produces at most one credit to its owner's
\* wallet: the early-exit amount, the winning payout or the refund, never two
\* of them, however ExitBet, the sweep and CancelMarket interleave.
C26_AtMostOneCreditPerBet ==
    \A b \in DOMAIN bets : CreditsOfBet(b) <= 1

\* call i of ExitBet commits its transaction in this step
ExitCommits(i) ==
    /\ exits[i].pc = "tx"
    /\ exits'[i].pc = "done"
    /\ exits'[i].res = "ok"

\* C27: the amount an early exit credits is at most pool_up + pool_down of
\* the market as they stand immediately before the exit.
C27_ExitWithinPools ==
    [][\A i \in ExitIds :
          ExitCommits(i) =>
              exits[i].exitAmount
                  <= TotalPool(markets[bets[exits[i].bet].market])]_vars

\* call i of PlaceBet ends its transaction in this step
PlaceTxEnds(i) == place[i].pc = "commit" /\ place'[i].pc = "done"

\* nothing of a placement is written in this step
NothingPlaced ==
    /\ bets' = bets
    /\ wallets' = wallets
    /\ wallet_transactions' = wallet_transactions
    /\ \A id \in DOMAIN markets :
          /\ markets'[id].pool_up = markets[id].pool_up
          /\ markets'[id].pool_down = markets[id].pool_down

\* C28: a bet is committed only if its market is open when the placement
\* transaction locks the market row: a PlaceBet racing with resolution,
\* suspension or cancellation commits no bet, no pool increase and no wallet
\* deduction on a market that is resolved, suspended or cancelled.
C28_CommitOnlyOnOpenMarket ==
    [][/\ \A i \in PlaceIds :
             PlaceTxEnds(i) /\ markets[place[i].market].status # "open" =>
                 /\ place'[i].res # "ok"
                 /\ NothingPlaced
       /\ Len(bets') > Len(bets) =>
             /\ markets[bets'[Len(bets')].market].status = "open"
             /\ markets'[bets'[Len(bets')].market].status = "open"]_vars

\* a placement read the market open, the market was resolved, suspended or
\* cancelled before the transaction locked its row, and the call failed
C28_Witness ==
    /\ place[1].pc = "done"
    /\ place[1].res = "ErrMarketNotOpen"
    /\ ~place[1].txOpen
    /\ markets[1].status \in {"resolved", "suspended", "cancelled"}
    /\ bets = <<>>

\* C29: once a market is resolved none of its bets and none of its MM
\* positions is open.
C29_NothingOpenInResolvedMarket ==
    /\ \A b \in DOMAIN bets :
          markets[bets[b].market].status = "resolved" => bets[b].status # "open"
    /\ \A k \in DOMAIN mm_positions :
          markets[mm_positions[k].market].status = "resolved" =>
              mm_positions[k].status # "open"

\* the stakes of the open user bets of market id on side d
OpenBetStakes(id, d) ==
    LET stake(b) == IF /\ bets[b].market = id
                       /\ bets[b].direction = d
                       /\ bets[b].status = "open"
                    THEN bets[b].amount ELSE 0
    IN  SumOver(DOMAIN bets, stake)

\* the open MM positions of market id on side d
OpenPositions(id, d) ==
    LET held(k) == IF /\ mm_positions[k].market = id
                      /\ mm_positions[k].direction = d
                      /\ mm_positions[k].status = "open"
                   THEN mm_positions[k].amount ELSE 0
    IN  SumOver(DOMAIN mm_positions, held)

\* C30: while a market is open each pool side is the sum of the open user
\* stakes on that side plus the open MM positions on that side, and no pool
\* is negative.
C30_PoolsAreOpenStakes ==
    \A id \in DOMAIN markets :
        /\ markets[id].pool_up >= 0
        /\ markets[id].pool_down >= 0
        /\ markets[id].status = "open" =>
              \A d \in Outcomes :
                  PoolOf(markets[id], d)
                      = OpenBetStakes(id, d) + OpenPositions(id, d)

\* market id is open and its closing time has passed
Expired(id) ==
    /\ id \in DOMAIN markets
    /\ markets[id].status = "open"
    /\ markets[id].closes_at <= now

\* C31: with the resolution loop running and the oracle answering, every open
\* market whose closing time has passed is eventually resolved, whatever bets
\* and exits happened on it.
C31_ExpiredMarketGetsResolved ==
    \A id \in 1..MaxMarkets :
        Expired(id) ~> (id \in DOMAIN markets /\ markets[id].status = "resolved")

\* odds(direction) of market m as a bet row stores them, 1 when the side is
\* empty
OddsSnapshot(m, direction) ==
    LET o == OddsFor(m, direction)
    IN  StoreDecimal4(IF o = <<>> THEN DecOne ELSE o)

\* C32: the odds_at_entry of a committed bet are the odds of its direction
\* computed from the pools as the bets committed before it left them (1 when
\* that side is empty), also when placements on the market run concurrently.
C32_OddsFromPriorBets ==
    [][Len(bets') > Len(bets) =>
          LET bet == bets'[Len(bets')]
          IN  bet.odds_at_entry
                  = OddsSnapshot(markets[bet.market], bet.direction)]_vars

\* market id becomes resolved in this step
BecomesResolved(id) ==
    /\ id \in DOMAIN markets
    /\ markets[id].status # "resolved"
    /\ markets'[id].status = "resolved"

\* the parimutuel payout of MM position k from the pools of its market row
PositionPayout(k) ==
    LET m == markets[mm_positions[k].market]
        won == markets'[mm_positions[k].market].result
    IN  calculatePayout(mm_positions[k].amount, PoolOf(m, won),
                        Distributable(PoolOf(m, Other(won))))

\* what the open winning positions of market id are paid in this step
WinningPositionsPayout(id) ==
    LET paid(k) == IF /\ mm_positions[k].market = id
                      /\ mm_positions[k].status = "open"
                      /\ mm_positions[k].direction = markets'[id].result
                   THEN PositionPayout(k) ELSE 0
    IN  SumOver(DOMAIN mm_positions, paid)

\* C33: at resolution an open MM position on the winning side credits the
\* platform wallet with round_down_4(amount + amount / winner_pool *
\* distributable) and is recorded won with pnl = payout - amount; one on the
\* losing side is recorded lost with pnl = -amount and changes no wallet.
C33_PlatformPositionsSettled ==
    [][\A id \in DOMAIN markets :
          BecomesResolved(id) =>
              /\ wallets'[Platform].balance
                     = wallets[Platform].balance + WinningPositionsPayout(id)
              /\ \A k \in DOMAIN mm_positions :
                    (mm_positions[k].market = id /\ mm_positions[k].status = "open")
                    => IF mm_positions[k].direction = markets'[id].result
                       THEN /\ mm_positions'[k].status = "won"
                            /\ mm_positions'[k].pnl
                                   = PositionPayout(k) - mm_positions[k].amount
                       ELSE /\ mm_positions'[k].status = "lost"
                            /\ mm_positions'[k].pnl = -mm_positions[k].amount]_vars

\* a Rebalance for market id is invoked in this step
RebalanceInvoked(id) ==
    /\ id \in pendingRebalance
    /\ id \notin pendingRebalance'

\* the pools of market id call for an injection
WouldInject(id) == IsOpen(markets[id]) /\ Decision(markets[id])[2] # 0

\* a Rebalance for market id is in progress
RebalanceInProgress(id) == rebal.pc # "idle" /\ rebal.market = id

\* C34: a Rebalance invocation is skipped only when another Rebalance for the
\* same market is in progress; an invocation for a market with no Rebalance
\* in progress goes on to its injection even while another market is being
\* rebalanced.
C34_SkipOnlySameMarket ==
    [][\A id \in DOMAIN markets :
          (RebalanceInvoked(id) /\ WouldInject(id) /\ ~RebalanceInProgress(id))
          => (rebal'.pc = "place" /\ rebal'.market = id)]_vars

\* the classification of the pools up / down as the specification words it:
\* <<side, amount>>, amount 0 for no injection
Classified(market) ==
    LET up == market.pool_up
        down == market.pool_down
        thin == IF down <= up THEN "DOWN" ELSE "UP"
        lo == IF down <= up THEN down ELSE up
        hi == IF down <= up THEN up ELSE down
        needed == (hi * TargetPct) \div 100 - lo
    IN  IF lo = 0 /\ hi # 0 THEN <<thin, (hi * SeedPct) \div 100>>
        ELSE IF hi # 0 /\ lo * 100 < TriggerPct * hi /\ needed > MinMMBet * Unit
        THEN <<thin, needed>>
        ELSE <<thin, 0>>

\* a Rebalance that holds the mutex decides in this step
RebalanceDecides(id) == RebalanceInvoked(id) /\ rebal.pc = "idle"

\* the decision of Rebalance is the one the classification gives
DecidesAsClassified ==
    \A id \in DOMAIN markets :
        RebalanceDecides(id) =>
            IF IsOpen(markets[id]) /\ Classified(markets[id])[2] # 0
            THEN /\ rebal'.pc = "place"
                 /\ rebal'.market = id
                 /\ rebal'.direction = Classified(markets[id])[1]
                 /\ rebal'.amount = Classified(markets[id])[2]
            ELSE rebal' = rebal

\* placePlatformBet returns in this step
PlaceReturns == rebal.pc = "place" /\ rebal'.pc = "idle"

\* the amount decided is added to the pool, taken from the platform wallet
\* and recorded as an open position
Injected ==
    /\ markets' = UpdatePools(markets, rebal.market, rebal.direction, rebal.amount)
    /\ wallets'[Platform].balance = wallets[Platform].balance - rebal.amount
    /\ mm_positions' = CreatePlatformBet(rebal.market, rebal.direction, rebal.amount)

\* MM liquidity enters a pool only through a decided injection
OnlyDecidedInjections ==
    mm_positions' # mm_positions /\ Len(mm_positions') > Len(mm_positions) =>
        PlaceReturns /\ Injected

PublishReturns == hub'.calls = hub.calls + 1
\* Run takes one message from the broadcast channel in this step
RunDelivers ==
    /\ hub.broadcast # <<>>
    /\ hub'.calls = hub.calls
    /\ hub'.broadcast = Tail(hub.broadcast)
\* client c holds message n, in its buffer or on its connection
Holds(c, n) ==
    \/ \E i \in DOMAIN hub.clients[c].send : hub.clients[c].send[i].seq = n
    \/ \E i \in DOMAIN hub.clients[c].written : hub.clients[c].written[i].seq = n

\* C40 as stated: publishing never blocks, and a message is lost only to a
\* subscriber whose buffer is full.  Once Run has taken everything that was
\* published from the broadcast channel, a registered subscriber holds every
\* message published since it registered, except those that found its
\* buffer full.
C40_SubscriberWithSpaceReceives ==
    hub.broadcast = <<>> =>
        \A c \in ClientIds :
            hub.clients[c].registered =>
                \A n \in (hub.clients[c].joined + 1)..hub.calls :
                    Holds(c, n) \/ n \in hub.clients[c].dropped

\* C40 as amended: publishing always returns; the message enters the hub's
\* broadcast channel if the channel has room and is dropped for everybody
\* otherwise; when Run delivers a message, every registered subscriber whose
\* buffer has room gets it at the end of its buffer, and the others keep
\* their buffers as they are.
C40_DropsPerSubscriberAtDelivery ==
    [][/\ PublishReturns =>
            /\ hub'.clients = hub.clients
            /\ hub'.broadcast =
                 IF Len(hub.broadcast) < broadcastBufferSize
                 THEN Append(hub.broadcast,
                             Message("bet_placed", 0, hub.calls + 1))
                 ELSE hub.broadcast
       /\ RunDelivers =>
            \A c \in ClientIds :
                /\ hub'.clients[c].registered = hub.clients[c].registered
                /\ hub'.clients[c].written = hub.clients[c].written
                /\ hub'.clients[c].send =
                     IF /\ hub.clients[c].registered
                        /\ Len(hub.clients[c].send) < sendBufferSize
                     THEN Append(hub.clients[c].send, Head(hub.broadcast))
                     ELSE hub.clients[c].send]_vars

\* a message that one subscriber, its buffer full, missed and the other got
C40_Witness ==
    \E n \in 1..MaxMsgs :
        /\ hub.clients[1].registered
        /\ hub.clients[2].registered
        /\ hub.clients[1].joined = 0
        /\ Len(hub.clients[1].send) = sendBufferSize
        /\ n \in hub.clients[1].dropped
        /\ Holds(2, n)

(* ---------------------------------------------------------------------- *)
(* C36                                                                     *)
(* ---------------------------------------------------------------------- *)
\* C36: every successful resolution of a market is followed by a
\* market-resolved broadcast for that market to the connected subscribers:
\* the call of resolveMarket that commits the resolution of market id and
\* returns, with a subscriber connected and room in the hub's broadcast
\* channel, leaves a market_resolved message for id in that channel.
C36_ResolutionIsBroadcast ==
    [][\A id \in 1..MaxMarkets :
          (/\ BecomesResolved(id)
           /\ hub.clients[1].registered
           /\ Len(hub.broadcast) < broadcastBufferSize)
          => \E i \in DOMAIN hub'.broadcast :
                /\ hub'.broadcast[i].type = "market_resolved"
                /\ hub'.broadcast[i].market = id]_vars

(* ---------------------------------------------------------------------- *)
(* C37                                                                     *)
(* ---------------------------------------------------------------------- *)
LoopName(loop) ==
    IF loop = "creation" THEN "marketCreationLoop"
    ELSE IF loop = "resolution" THEN "resolutionLoop"
    ELSE "priceBroadcastLoop"
\* a panic of loop is recovered and logged in this step
PanicRecovered(loop) ==
    /\ LoopName(loop) \notin sched.recovered
    /\ LoopName(loop) \in sched'.recovered
\* the other loops are where they were
OthersKeepRunning(loop) ==
    \A other \in {"creation", "resolution", "price"} \ {loop} :
        sched'[other] = sched[other]

\* C37: a panic raised inside one tick of a scheduler loop is recovered and
\* logged and does not stop scheduling: the step that recovers it leaves the
\* other loops as they are, and the loop in which it occurred has not ended
\* but is back at the top of its loop, ready for its next tick.
C37_PanicDoesNotStopLoop ==
    [][\A loop \in {"creation", "resolution", "price"} :
          PanicRecovered(loop) =>
              /\ OthersKeepRunning(loop)
              /\ sched'[loop].pc # "returned"]_vars

\* the part of C37 about the other loops
C37_PanicLeavesOtherLoops ==
    [][\A loop \in {"creation", "resolution", "price"} :
          PanicRecovered(loop) => OthersKeepRunning(loop)]_vars

(* ---------------------------------------------------------------------- *)
(* C38                                                                     *)
(* ---------------------------------------------------------------------- *)
\* an attempt of createMarketWithRetry ends in this step
AttemptEnds ==
    /\ sched.creation.pc = "attempt"
    /\ sched'.creation.pc # "attempt"
AttemptSucceeds == AttemptEnds /\ Len(markets') = Len(markets) + 1
AttemptFails == AttemptEnds /\ markets' = markets
\* the loop is back at its wait, for a boundary that is still to come
WaitsForNextBoundary ==
    /\ sched'.creation.pc = "wait"
    /\ schedNext' = NextBoundary
    /\ schedNext' > now

\* C38: at each 5-minute boundary the scheduler attempts market creation at
\* most 3 times with a 30 s wait between attempts; it stops at the first
\* success, broadcasting the new market, and after 3 failures it creates no
\* market for that boundary and goes on to wait for the next boundary.
C38_ThreeAttemptsPerBoundary ==
    [][/\ sched'.creation.attempt <= maxAttempts
       /\ AttemptSucceeds =>
            /\ markets'[Len(markets')].opens_at = schedNext
            /\ Len(hub.broadcast) < broadcastBufferSize =>
                 hub'.broadcast = Append(hub.broadcast,
                     Message("new_market", Len(markets'), 0))
            /\ WaitsForNextBoundary
       /\ (AttemptFails /\ sched.creation.attempt < maxAttempts) =>
            /\ sched'.creation.pc = "backoff"
            /\ sched'.creation.timer = Clock + retryDelay
            /\ schedNext' = schedNext
       /\ (AttemptFails /\ sched.creation.attempt >= maxAttempts) =>
            WaitsForNextBoundary
       /\ sched'.creation.pc = "attempt" =>
            \/ sched.creation.pc = "attempt"
            \/ /\ sched.creation.pc = "wait"
               /\ now >= schedNext
               /\ sched'.creation.attempt = 1
            \/ /\ sched.creation.pc = "backoff"
               /\ Clock >= sched.creation.timer
               /\ sched'.creation.attempt = sched.creation.attempt + 1]_vars

\* three attempts at the first boundary have failed, a minute has passed, no
\* market is there and the loop waits for the second boundary
C38_Witness ==
    /\ sched.creation.pc = "wait"
    /\ markets = <<>>
    /\ now = Period
    /\ schedNext = 2 * Period
    /\ Clock >= Period * StepsPerRound + 2 * retryDelay

(* ---------------------------------------------------------------------- *)
(* C39                                                                     *)
(* ---------------------------------------------------------------------- *)
Tickers == {"resolution", "price"}
\* loop starts a tick in this step: the creation loop an attempt, a ticker
\* loop takes a tick from its ticker
StartsTick(loop) ==
    IF loop = "creation"
    THEN sched.creation.pc # "attempt" /\ sched'.creation.pc = "attempt"
    ELSE \/ sched[loop].pc = "select" /\ sched'[loop].pc = "ticking"
         \/ sched[loop].tickDue /\ ~sched'[loop].tickDue
AllReturned ==
    \A loop \in {"creation"} \cup Tickers : sched[loop].pc = "returned"

====
